---- MODULE Spec2Model ----
(***************************************************************************)
(* BioGenie: chat-session persistence of the tool screens.                 *)
(*                                                                         *)
(* The repository carries two builds of the tool screens:                  *)
(*   "local" - the screens that import saveSession / loadSession from      *)
(*             ChatHistorySidebar.jsx and keep sessions in localStorage;   *)
(*   "db"    - the screens that write user_chats / chat_messages through   *)
(*             the Supabase client.                                        *)
(* Spec runs one build per behaviour (variable variant).  SpecApi drives   *)
(* the exported localStorage helpers directly.                             *)
(*                                                                         *)
(* Strings are abstracted to [id, len]: an identity and a length, which is *)
(* what slicing and the truncation marker depend on.                       *)
(***************************************************************************)
EXTENDS Integers, Sequences, FiniteSets, TLC

VARIABLES
    biotech_rag_chunks, \* the table of content chunks, in insertion order
    rag,            \* the last call of match_rag_chunks and the rows it returned
    listeners,      \* window's listeners for the refresh-sidebar events (followed in
                    \* SpecBus; elsewhere the mounted sidebar listens, see gem)
    invoked,        \* the last dispatch of a refresh-sidebar event and whom it invoked
    backendReady,   \* the screen's backendReady: "null", "true" or "false" (followed in
                    \* SpecProbe, like indexReady and probe)
    indexReady,     \* the screen's indexReady
    probe,          \* the checkHealth effect: retryCount, where it stands, and the
                    \* number of fetches of /health it has made
    variant,        \* [build, tool]: the build that runs ("local", "db", "api", "rag") and the
                    \* tool screen this behaviour opens
    userId,         \* App.userId; NoUser for a guest (isAuthenticated is set with it)
    gem,            \* the mounted tool screen, NoGem on the dashboard
    messages,       \* chat screens: the displayed conversation
    sessionId,      \* the screen's active session id (sessionId / currentChatId), Null if none
    loading,        \* the screen's loading flag
    inputText,      \* Summarizer: the text box
    summary,        \* Summarizer: the displayed summary, NoText if none
    errorMsg,       \* Summarizer: the displayed error, NoText if none
    inflight,       \* closure of the mounted screen's outstanding handler, NoReq if none
    orphan,         \* closure of an outstanding handler whose screen has unmounted
    store,          \* localStorage["biogenie_chat_sessions"]: array of sessions
    sessions,       \* the sidebar's displayed list (sessions / chatSessions)
    user_chats,     \* table public.user_chats, in insertion order
    chat_messages,  \* table public.chat_messages, in insertion order
    now,            \* the clock read by new Date() / now()
    nextId,         \* the next id uid() / gen_random_uuid() hands out
    sent            \* number of requests issued so far

ragVars == <<biotech_rag_chunks, rag>>
busVars == <<listeners, invoked>>
probeVars == <<backendReady, indexReady, probe>>
vars == <<ragVars, busVars, probeVars, variant, userId, gem, messages, sessionId, loading, inputText, summary,
          errorMsg, inflight, orphan, store, sessions, user_chats, chat_messages,
          now, nextId, sent>>

Build == variant.build
Tool == variant.tool

----------------------------------------------------------------------------
(* Bounds *)

MaxRequests == 2
MaxTime == 1
MaxLen == 62        \* the longest text a title is derived from
MaxChunks == 3      \* the rows of the chunk table
MaxCount == 2       \* the largest match_count of a call

----------------------------------------------------------------------------
(* Values *)

Null == 0
NoUser == "none"
NoGem == "none"
Users == {"u1"}
ChatGems == {"doubt", "notes"}
Gems == ChatGems \cup {"summarizer"}

Txt(i, n) == [id |-> i, len |-> n]
NoText == Txt("", 0)
\* the texts a user types: the k-th request of a behaviour sends the k-th text, so
\* that exchanges can be told apart; lengths lie on both sides of the title cut
Questions == {Txt("q1", 75), Txt("q2", 12), Txt("q3", 60), Txt("q4", 61)}
Question(k) == CHOOSE q \in Questions : q.id = <<"q1", "q2", "q3", "q4">>[k]
Answers == {Txt("a1", 40)}
Details == {Txt("detail", 20)}
\* what the gateway answers: the text and the citations of the reply (a reply that is
\* not ok takes the same path with data.detail as its text)
Replies == {[text |-> Txt("a1", 40), sources |-> <<"s2", "s1">>]}

WELCOME_MSG == [from |-> "bot", text |-> Txt("welcome", 30)]
CannotReach == Txt("cannot-reach", 35)
CannotConnect == Txt("cannot-connect", 25)
PdfUpload == Txt("(PDF upload)", 12)
Summarization == Txt("Summarization", 13)

NoReq == [kind |-> "none"]
NoCall == [kind |-> "none"]
NoDispatch == [kind |-> "none"]
NoProbe == [pc |-> "none", retryCount |-> 0, fetches |-> 0]

Min(a, b) == IF a < b THEN a ELSE b

\* the sidebar entries a click can land on: no list outgrows the sessions that
\* MaxRequests requests can create
MaxShown == 2 * MaxRequests

RECURSIVE SelectSeqIdx(_, _, _)
\* index of the first element of s from position i on that satisfies id = x, 0 if none
SelectSeqIdx(s, x, i) ==
    IF i > Len(s) THEN 0
    ELSE IF s[i].id = x THEN i
    ELSE SelectSeqIdx(s, x, i + 1)

----------------------------------------------------------------------------
(* ChatHistorySidebar.jsx: the localStorage helpers *)

\* loadSession(sessionId): all.find(s => s.id === sessionId) || null
HasSession(st, sid) == SelectSeqIdx(st, sid, 1) # 0
loadSession(st, sid) == st[SelectSeqIdx(st, sid, 1)]

\* saveSession whose update branch pushes the session when the id is not found
saveSession_upsert(st, full, t, nid, uid_, feature, title, msgs, sid) ==
    IF uid_ = NoUser THEN [store |-> st, ret |-> Null, threw |-> FALSE]
    ELSE IF full THEN [store |-> st, ret |-> Null, threw |-> TRUE]
    ELSE IF sid # Null
    THEN LET idx == SelectSeqIdx(st, sid, 1) IN
         IF idx # 0
         THEN [store |-> [st EXCEPT ![idx].title = title,
                                    ![idx].messages = msgs,
                                    ![idx].updatedAt = t],
               ret |-> sid, threw |-> FALSE]
         ELSE [store |-> Append(st, [id |-> sid, userId |-> uid_, feature |-> feature,
                                     title |-> title, messages |-> msgs,
                                     createdAt |-> t, updatedAt |-> t]),
               ret |-> sid, threw |-> FALSE]
    ELSE [store |-> Append(st, [id |-> nid, userId |-> uid_, feature |-> feature,
                                title |-> title, messages |-> msgs,
                                createdAt |-> t, updatedAt |-> t]),
          ret |-> nid, threw |-> FALSE]

\* saveSession whose create branch swallows the exception of setItem and returns
\* the id it made up
saveSession_phantom(st, full, t, nid, uid_, feature, title, msgs, sid) ==
    IF uid_ = NoUser THEN [store |-> st, ret |-> Null, threw |-> FALSE]
    ELSE IF sid # Null
    THEN LET idx == SelectSeqIdx(st, sid, 1) IN
         IF idx # 0
         THEN IF full THEN [store |-> st, ret |-> Null, threw |-> TRUE]
              ELSE [store |-> [st EXCEPT ![idx].title = title,
                                         ![idx].messages = msgs,
                                         ![idx].updatedAt = t],
                    ret |-> sid, threw |-> FALSE]
         ELSE [store |-> st, ret |-> sid, threw |-> FALSE]
    ELSE IF full THEN [store |-> st, ret |-> nid, threw |-> FALSE]
         ELSE [store |-> Append(st, [id |-> nid, userId |-> uid_, feature |-> feature,
                                     title |-> title, messages |-> msgs,
                                     createdAt |-> t, updatedAt |-> t]),
               ret |-> nid, threw |-> FALSE]

\* saveSession({ userId, feature, title, messages, sessionId }) run against the
\* array st at time t with nid the id uid() would return; full: setItem throws.
\* Result: the array written back, the returned id, and whether it threw.
saveSession(st, full, t, nid, uid_, feature, title, msgs, sid) ==
    IF uid_ = NoUser THEN [store |-> st, ret |-> Null, threw |-> FALSE]
    ELSE IF sid # Null
    THEN LET idx == SelectSeqIdx(st, sid, 1) IN
         IF idx # 0
         THEN IF full THEN [store |-> st, ret |-> Null, threw |-> TRUE]
              ELSE [store |-> [st EXCEPT ![idx].title = title,
                                         ![idx].messages = msgs,
                                         ![idx].updatedAt = t],
                    ret |-> sid, threw |-> FALSE]
         ELSE [store |-> st, ret |-> sid, threw |-> FALSE]
    ELSE IF full THEN [store |-> st, ret |-> Null, threw |-> TRUE]
         ELSE [store |-> Append(st, [id |-> nid, userId |-> uid_, feature |-> feature,
                                     title |-> title, messages |-> msgs,
                                     createdAt |-> t, updatedAt |-> t]),
               ret |-> nid, threw |-> FALSE]

RECURSIVE InsertDesc(_, _)
\* x goes behind every element whose updatedAt is not older (Array.prototype.sort is stable)
InsertDesc(x, s) ==
    IF s = <<>> THEN <<x>>
    ELSE IF Head(s).updatedAt >= x.updatedAt THEN <<Head(s)>> \o InsertDesc(x, Tail(s))
    ELSE <<x>> \o s

RECURSIVE SortDesc(_)
SortDesc(s) ==
    IF s = <<>> THEN <<>>
    ELSE InsertDesc(s[Len(s)], SortDesc(SubSeq(s, 1, Len(s) - 1)))

\* refreshSessions(): the sessions of this feature and user, latest update first
refreshSessions(st, feature, uid_) ==
    SortDesc(SelectSeq(st, LAMBDA s : s.feature = feature /\ s.userId = uid_))

\* text.slice(0, 60) + (text.length > 60 ? "…" : "")
\* TitleOf without its slice(0, 60): the whole text, with the marker behind it
TitleOf_unsliced(text) ==
    [id |-> text.id, len |-> text.len + (IF text.len > 60 THEN 1 ELSE 0),
     tail |-> IF text.len > 60 THEN "ellipsis" ELSE ""]

\* a title is the text it was cut from (id), its length, and the marker at its end:
\* "ellipsis" (one character), "dots" (three characters) or none
TitleOf(text) ==
    [id |-> text.id, len |-> Min(text.len, 60) + (IF text.len > 60 THEN 1 ELSE 0),
     tail |-> IF text.len > 60 THEN "ellipsis" ELSE ""]

\* PptMaker.persistChat: the chart emoji (two code units), a blank, and
\* topicText.slice(0, 55)
TitlePpt(text) == [id |-> text.id, len |-> 3 + Min(text.len, 55), tail |-> ""]

UserMsgs(msgs) == SelectSeq(msgs, LAMBDA m : m.from = "user")

\* persistChat without its first line, saving a guest's chat under a stand-in owner
persistChat_anon(st, full, t, nid, uid_, feature, msgs, sid) ==
    IF UserMsgs(msgs) = <<>>
    THEN [store |-> st, ret |-> sid, threw |-> FALSE, dispatched |-> FALSE]
    ELSE LET r == saveSession(st, full, t, nid, IF uid_ = NoUser THEN "anonymous" ELSE uid_,
                              feature, TitleOf(UserMsgs(msgs)[1].text), msgs, sid)
         IN  [store |-> r.store, ret |-> r.ret, threw |-> r.threw,
              dispatched |-> ~r.threw /\ r.ret # Null /\ sid = Null]

\* persistChat(updatedMessages, existingSessionId) of the chat screens.
\* dispatched: whether it reached its own dispatchEvent.
persistChat(st, full, t, nid, uid_, feature, msgs, sid) ==
    IF uid_ = NoUser THEN [store |-> st, ret |-> Null, threw |-> FALSE, dispatched |-> FALSE]
    ELSE IF UserMsgs(msgs) = <<>>
    THEN [store |-> st, ret |-> sid, threw |-> FALSE, dispatched |-> FALSE]
    ELSE LET r == saveSession(st, full, t, nid, uid_, feature,
                              TitleOf(UserMsgs(msgs)[1].text), msgs, sid)
         IN  [store |-> r.store, ret |-> r.ret, threw |-> r.threw,
              dispatched |-> ~r.threw /\ r.ret # Null /\ sid = Null]

\* Summarizer.persistChat(inputContent, outputSummary, existingSessionId)
persistSummary(st, full, t, nid, uid_, inputContent, outputSummary, sid) ==
    IF uid_ = NoUser THEN [store |-> st, ret |-> Null, threw |-> FALSE, dispatched |-> FALSE]
    ELSE LET title == IF inputContent = NoText THEN TitleOf(Summarization)
                      ELSE TitleOf(inputContent)
             msgs == << [from |-> "user",
                         text |-> IF inputContent = NoText THEN PdfUpload ELSE inputContent],
                        [from |-> "bot", text |-> outputSummary] >>
             r == saveSession(st, full, t, nid, uid_, "summarizer", title, msgs, sid)
         IN  [store |-> r.store, ret |-> r.ret, threw |-> r.threw,
              dispatched |-> ~r.threw /\ r.ret # Null /\ sid = Null]

----------------------------------------------------------------------------
(* App (part_008): authentication and navigation *)

isAuthenticated == userId # NoUser

\* a tool screen mounts with its initial state; the sidebar loads its list
\* only for a signed-in user
MountState(g) ==
    /\ messages' = IF g \in ChatGems THEN <<WELCOME_MSG>> ELSE <<>>
    /\ sessionId' = Null
    /\ loading' = FALSE
    /\ inputText' = NoText
    /\ summary' = NoText
    /\ errorMsg' = NoText
    /\ inflight' = NoReq

Login(u) ==
    /\ Build \in {"local", "db"}
    /\ gem = NoGem /\ userId = NoUser
    /\ userId' = u
    /\ UNCHANGED <<ragVars, busVars, probeVars,
                   variant, gem, messages, sessionId, loading, inputText, summary, errorMsg,
                   inflight, orphan, store, sessions, user_chats, chat_messages, now,
                   nextId, sent>>

handleLogout ==
    /\ Build \in {"local", "db"}
    /\ gem = NoGem /\ userId # NoUser
    /\ userId' = NoUser
    /\ UNCHANGED <<ragVars, busVars, probeVars,
                   variant, gem, messages, sessionId, loading, inputText, summary, errorMsg,
                   inflight, orphan, store, sessions, user_chats, chat_messages, now,
                   nextId, sent>>

\* onBack: the screen unmounts; a handler still awaiting its response keeps running
onBack ==
    /\ Build \in {"local", "db"}
    /\ gem # NoGem
    /\ inflight # NoReq => orphan = NoReq /\ Build = "local"
    /\ gem' = NoGem
    /\ orphan' = IF inflight # NoReq THEN inflight ELSE orphan
    /\ messages' = <<>> /\ sessionId' = Null /\ loading' = FALSE
    /\ inputText' = NoText /\ summary' = NoText /\ errorMsg' = NoText
    /\ inflight' = NoReq /\ sessions' = <<>>
    /\ UNCHANGED <<ragVars, busVars, probeVars,
                   variant, userId, store, user_chats, chat_messages, now, nextId, sent>>

----------------------------------------------------------------------------
(* The localStorage screens: DoubtSolver (part_003), NotesGenerator (part_005) *)

SidebarItem(s) == [id |-> s.id, title |-> s.title, updatedAt |-> s.updatedAt]
\* the list without the sort of refreshSessions
SidebarList_unsorted(st, feature, uid_) ==
    LET l == SelectSeq(st, LAMBDA x : x.feature = feature /\ x.userId = uid_)
    IN  [i \in 1..Len(l) |-> SidebarItem(l[i])]

SidebarList(st, feature, uid_) ==
    LET l == refreshSessions(st, feature, uid_) IN [i \in 1..Len(l) |-> SidebarItem(l[i])]

\* the bot message a chat screen builds from the gateway's reply
BotMsg(g, answer, srcs) ==
    IF g = "doubt" THEN [from |-> "bot", text |-> answer, sources |-> srcs]
    ELSE [from |-> "bot", text |-> answer]

\* the message of the catch block
CatchMsg(g) ==
    IF g = "doubt" THEN [from |-> "bot", text |-> CannotReach, sources |-> <<>>]
    ELSE [from |-> "bot", text |-> CannotReach]

LocalOpen(g) ==
    /\ Build = "local"
    /\ gem = NoGem /\ g = Tool
    /\ gem' = g
    /\ MountState(g)
    /\ sessions' = IF isAuthenticated THEN SidebarList(store, g, userId) ELSE <<>>
    /\ UNCHANGED <<ragVars, busVars, probeVars,
                   variant, userId, orphan, store, user_chats, chat_messages, now, nextId, sent>>

\* sendQuestion up to its await
LocalSend(q) ==
    /\ Build = "local"
    /\ gem \in ChatGems
    /\ ~loading
    /\ orphan = NoReq      \* bound: with a handler left over from an unmounted
                           \* screen still waiting, no new request is started
    /\ sent < MaxRequests
    /\ q = Question(sent + 1)
    /\ LET newMessages == Append(messages, [from |-> "user", text |-> q]) IN
        /\ messages' = newMessages
        /\ inflight' = [kind |-> "ask", gem |-> gem, userId |-> userId, question |-> q,
                        newMessages |-> newMessages, sessionId |-> sessionId]
    /\ loading' = TRUE
    /\ sent' = sent + 1
    /\ UNCHANGED <<ragVars, busVars, probeVars,
                   variant, userId, gem, sessionId, inputText, summary, errorMsg, orphan,
                   store, sessions, user_chats, chat_messages, now, nextId>>

\* ReplyDisplay with the catch block's setMessages putting its message in the place of
\* the answer instead of behind it
ReplyDisplay_answerLost(g, allMessages, threw) ==
    IF threw THEN Append(SubSeq(allMessages, 1, Len(allMessages) - 1), CatchMsg(g))
    ELSE allMessages

\* what sendQuestion leaves on screen after the reply: setMessages(allMessages) comes
\* before persistChat, and an exception of persistChat reaches the catch block's
\* setMessages(prev => [...prev, placeholder])
ReplyDisplay(g, allMessages, threw) ==
    IF threw THEN Append(allMessages, CatchMsg(g)) ELSE allMessages

\* sendQuestion from the reply on: the gateway answered (res.ok or not) with
\* text answer and citations srcs
LocalReply(answer, srcs, full, dt) ==
    /\ Build = "local"
    /\ now + dt <= MaxTime /\ now' = now + dt
    /\ inflight # NoReq /\ inflight.kind = "ask"
    /\ LET c == inflight
           allMessages == Append(c.newMessages, BotMsg(c.gem, answer, srcs))
           p == persistChat(store, full, now + dt, nextId, c.userId, c.gem,
                            allMessages, c.sessionId)
       IN  /\ store' = p.store
           /\ nextId' = IF Len(p.store) > Len(store) THEN nextId + 1 ELSE nextId
           /\ messages' = ReplyDisplay(c.gem, allMessages, p.threw)
           /\ IF p.threw
              THEN UNCHANGED <<sessionId, sessions>>
              ELSE /\ sessionId' = IF p.ret # Null THEN p.ret ELSE sessionId
                   /\ sessions' = SidebarList(p.store, gem, userId)
    /\ loading' = FALSE
    /\ inflight' = NoReq
    /\ UNCHANGED <<ragVars, busVars, probeVars,
                   variant, userId, gem, inputText, summary, errorMsg, orphan, user_chats,
                   chat_messages, sent>>

\* sendQuestion when fetch or res.json() throws
LocalFail ==
    /\ Build = "local"
    /\ inflight # NoReq /\ inflight.kind = "ask"
    /\ messages' = Append(messages, CatchMsg(inflight.gem))
    /\ loading' = FALSE
    /\ inflight' = NoReq
    /\ UNCHANGED <<ragVars, busVars, probeVars,
                   variant, userId, gem, sessionId, inputText, summary, errorMsg, orphan,
                   store, sessions, user_chats, chat_messages, now, nextId, sent>>

\* handleSelectSession(session), session an entry of the sidebar
LocalSelect(i) ==
    /\ Build = "local"
    /\ gem \in ChatGems
    /\ isAuthenticated
    /\ i \in 1..Len(sessions)
    /\ IF HasSession(store, sessions[i].id)
       THEN /\ messages' = loadSession(store, sessions[i].id).messages
            /\ sessionId' = sessions[i].id
       ELSE UNCHANGED <<messages, sessionId>>
    /\ UNCHANGED <<ragVars, busVars, probeVars,
                   variant, userId, gem, loading, inputText, summary, errorMsg, inflight,
                   orphan, store, sessions, user_chats, chat_messages, now, nextId, sent>>

\* what handleNewChat does to the store and the sidebar before it clears the screen
NewChatSave(full, dt) ==
    IF UserMsgs(messages) # <<>> /\ isAuthenticated
    THEN persistChat(store, full, now + dt, nextId, userId, gem, messages, sessionId)
    ELSE [store |-> store, ret |-> Null, threw |-> FALSE, dispatched |-> FALSE]

\* handleNewChat; a throwing save leaves the handler before it clears anything
LocalNewChat(full, dt) ==
    /\ Build = "local"
    /\ now + dt <= MaxTime /\ now' = now + dt
    /\ gem \in ChatGems
    /\ isAuthenticated
    /\ LET p == NewChatSave(full, dt) IN
        /\ ~p.threw
        /\ store' = p.store
        /\ nextId' = IF Len(p.store) > Len(store) THEN nextId + 1 ELSE nextId
        /\ sessions' = IF UserMsgs(messages) # <<>> /\ isAuthenticated
                       THEN SidebarList(p.store, gem, userId) ELSE sessions
    /\ messages' = <<WELCOME_MSG>>
    /\ sessionId' = Null
    /\ UNCHANGED <<ragVars, busVars, probeVars,
                   variant, userId, gem, loading, inputText, summary, errorMsg, inflight,
                   orphan, user_chats, chat_messages, sent>>

\* deleteSession without its setAllSessions(all)
deleteSession_unsaved(st, sid) == st

\* the array deleteSession writes back
deleteSession(st, sid) == SelectSeq(st, LAMBDA s : s.id # sid)

\* deleteSession(e, sessionId) of the sidebar, sessionId an entry of its list; deleting
\* the active session calls onNewChat (handleNewChat, whose save finds no such id)
LocalDelete(i) ==
    /\ Build = "local"
    /\ gem \in Gems
    /\ isAuthenticated
    /\ i \in 1..Len(sessions)
    /\ LET sid == sessions[i].id
           st1 == deleteSession(store, sid)
           shown == SelectSeq(sessions, LAMBDA s : s.id # sid)
       IN  IF sid = sessionId
           THEN /\ store' = st1
                /\ sessionId' = Null
                /\ IF gem \in ChatGems
                   THEN /\ messages' = <<WELCOME_MSG>>
                        /\ sessions' = IF UserMsgs(messages) # <<>>
                                       THEN SidebarList(st1, gem, userId) ELSE shown
                        /\ UNCHANGED <<inputText, summary, errorMsg>>
                   ELSE /\ inputText' = NoText /\ summary' = NoText /\ errorMsg' = NoText
                        /\ sessions' = IF summary # NoText
                                       THEN SidebarList(st1, gem, userId) ELSE shown
                        /\ UNCHANGED messages
           ELSE /\ store' = st1
                /\ sessions' = shown
                /\ UNCHANGED <<sessionId, messages, inputText, summary, errorMsg>>
    /\ UNCHANGED <<ragVars, busVars, probeVars,
                   variant, userId, gem, loading, inflight, orphan, user_chats,
                   chat_messages, now, nextId, sent>>

\* the reply to a handler whose screen has unmounted: its state setters do nothing,
\* its save and its refresh signal still happen
LocalOrphanReply(answer, srcs, full, dt) ==
    /\ Build = "local"
    /\ now + dt <= MaxTime /\ now' = now + dt
    /\ orphan # NoReq /\ orphan.kind = "ask"
    /\ LET c == orphan
           allMessages == Append(c.newMessages, BotMsg(c.gem, answer, srcs))
           p == persistChat(store, full, now + dt, nextId, c.userId, c.gem,
                            allMessages, c.sessionId)
       IN  /\ store' = p.store
           /\ nextId' = IF Len(p.store) > Len(store) THEN nextId + 1 ELSE nextId
           /\ sessions' = IF ~p.threw /\ gem = c.gem
                          THEN SidebarList(p.store, gem, userId) ELSE sessions
    /\ orphan' = NoReq
    /\ UNCHANGED <<ragVars, busVars, probeVars,
                   variant, userId, gem, messages, sessionId, loading, inputText, summary,
                   errorMsg, inflight, user_chats, chat_messages,
                   sent>>

LocalOrphanFail ==
    /\ Build = "local"
    /\ orphan # NoReq
    /\ orphan' = NoReq
    /\ UNCHANGED <<ragVars, busVars, probeVars,
                   variant, userId, gem, messages, sessionId, loading, inputText, summary,
                   errorMsg, inflight, store, sessions, user_chats, chat_messages, now,
                   nextId, sent>>

----------------------------------------------------------------------------
(* The localStorage Summarizer (part_001) *)

ErrOccurred == Txt("An error occurred.", 18)

\* the textarea's onChange
SetInputText(t) ==
    /\ Build \in {"local", "db"}
    /\ gem = "summarizer"
    /\ t # inputText
    /\ inputText' = t
    /\ UNCHANGED <<ragVars, busVars, probeVars,
                   variant, userId, gem, messages, sessionId, loading, summary, errorMsg,
                   inflight, orphan, store, sessions, user_chats, chat_messages, now,
                   nextId, sent>>

\* handleSummarize up to its await (the button is disabled while loading or empty)
LocalSummarize ==
    /\ Build = "local"
    /\ gem = "summarizer"
    /\ ~loading /\ inputText # NoText
    /\ orphan = NoReq
    /\ sent < MaxRequests
    /\ loading' = TRUE
    /\ summary' = NoText
    /\ errorMsg' = NoText
    /\ inflight' = [kind |-> "summarize", gem |-> gem, userId |-> userId,
                    inputText |-> inputText, sessionId |-> sessionId]
    /\ sent' = sent + 1
    /\ UNCHANGED <<ragVars, busVars, probeVars,
                   variant, userId, gem, messages, sessionId, inputText, orphan, store,
                   sessions, user_chats, chat_messages, now, nextId>>

\* handleSummarize from a res.ok reply on
LocalSummaryReply(sum, full, dt) ==
    /\ Build = "local"
    /\ now + dt <= MaxTime /\ now' = now + dt
    /\ inflight # NoReq /\ inflight.kind = "summarize"
    /\ LET c == inflight
           p == persistSummary(store, full, now + dt, nextId, c.userId, c.inputText,
                               sum, c.sessionId)
       IN  /\ store' = p.store
           /\ nextId' = IF Len(p.store) > Len(store) THEN nextId + 1 ELSE nextId
           /\ summary' = sum
           /\ IF p.threw
              THEN /\ errorMsg' = CannotConnect
                   /\ UNCHANGED <<sessionId, sessions>>
              ELSE /\ sessionId' = IF p.ret # Null THEN p.ret ELSE sessionId
                   /\ sessions' = SidebarList(p.store, gem, userId)
                   /\ UNCHANGED errorMsg
    /\ loading' = FALSE
    /\ inflight' = NoReq
    /\ UNCHANGED <<ragVars, busVars, probeVars,
                   variant, userId, gem, messages, inputText, orphan, user_chats,
                   chat_messages, sent>>

\* handleSummarize when the reply is not ok (detail = NoText: data.detail missing),
\* or when fetch throws (thrown)
LocalSummaryError(detail, thrown) ==
    /\ Build = "local"
    /\ inflight # NoReq /\ inflight.kind = "summarize"
    /\ errorMsg' = IF thrown THEN CannotConnect
                   ELSE IF detail = NoText THEN ErrOccurred ELSE detail
    /\ loading' = FALSE
    /\ inflight' = NoReq
    /\ UNCHANGED <<ragVars, busVars, probeVars,
                   variant, userId, gem, messages, sessionId, inputText, summary, orphan,
                   store, sessions, user_chats, chat_messages, now, nextId, sent>>

LocalOrphanSummaryReply(sum, full, dt) ==
    /\ Build = "local"
    /\ now + dt <= MaxTime /\ now' = now + dt
    /\ orphan # NoReq /\ orphan.kind = "summarize"
    /\ LET c == orphan
           p == persistSummary(store, full, now + dt, nextId, c.userId, c.inputText,
                               sum, c.sessionId)
       IN  /\ store' = p.store
           /\ nextId' = IF Len(p.store) > Len(store) THEN nextId + 1 ELSE nextId
           /\ sessions' = IF ~p.threw /\ gem = c.gem
                          THEN SidebarList(p.store, gem, userId) ELSE sessions
    /\ orphan' = NoReq
    /\ UNCHANGED <<ragVars, busVars, probeVars,
                   variant, userId, gem, messages, sessionId, loading, inputText, summary,
                   errorMsg, inflight, user_chats, chat_messages,
                   sent>>

FirstFrom(msgs, who) == SelectSeq(msgs, LAMBDA m : m.from = who)

\* handleSelectSession(session) of the Summarizer
LocalSelectSummary(i) ==
    /\ Build = "local"
    /\ gem = "summarizer"
    /\ isAuthenticated
    /\ i \in 1..Len(sessions)
    /\ IF HasSession(store, sessions[i].id)
       THEN LET loaded == loadSession(store, sessions[i].id)
                userMsg == FirstFrom(loaded.messages, "user")
                botMsg == FirstFrom(loaded.messages, "bot")
            IN  /\ sessionId' = loaded.id
                /\ inputText' = IF userMsg = <<>> THEN inputText
                                ELSE IF userMsg[1].text = PdfUpload THEN NoText
                                ELSE userMsg[1].text
                /\ summary' = IF botMsg = <<>> THEN summary ELSE botMsg[1].text
                /\ errorMsg' = NoText
       ELSE UNCHANGED <<sessionId, inputText, summary, errorMsg>>
    /\ UNCHANGED <<ragVars, busVars, probeVars,
                   variant, userId, gem, messages, loading, inflight, orphan, store,
                   sessions, user_chats, chat_messages, now, nextId,
                   sent>>

\* handleNewChat of the Summarizer: saves what is on screen, then clears it
LocalNewSummary(full, dt) ==
    /\ Build = "local"
    /\ now + dt <= MaxTime /\ now' = now + dt
    /\ gem = "summarizer"
    /\ isAuthenticated
    /\ LET p == IF summary # NoText
                THEN persistSummary(store, full, now + dt, nextId, userId, inputText,
                                    summary, sessionId)
                ELSE [store |-> store, ret |-> Null, threw |-> FALSE, dispatched |-> FALSE]
       IN  /\ ~p.threw
           /\ store' = p.store
           /\ nextId' = IF Len(p.store) > Len(store) THEN nextId + 1 ELSE nextId
           /\ sessions' = IF summary # NoText THEN SidebarList(p.store, gem, userId)
                          ELSE sessions
    /\ inputText' = NoText /\ summary' = NoText /\ errorMsg' = NoText
    /\ sessionId' = Null
    /\ UNCHANGED <<ragVars, busVars, probeVars,
                   variant, userId, gem, messages, loading, inflight, orphan, user_chats,
                   chat_messages, sent>>

----------------------------------------------------------------------------
(* The Supabase screens: DoubtSolver.jsx, NotesGenerator.jsx, Summarizer.jsx,  *)
(* over the tables of chat_history_schema.sql.  A statement takes effect when  *)
(* its result comes back; ok = FALSE is a statement answered with an error.    *)
(* Row-level security: a row of user_chats is visible to and insertable by its *)
(* user_id; chat_messages has a select and an insert policy and no other.      *)

tool_name(g) == IF g = "doubt" THEN "Doubt Solver"
                ELSE IF g = "notes" THEN "Notes Generator" ELSE "Summarizer"

\* question.length > 30 ? question.substring(0, 30) + '...' : question
TitleDb(text) ==
    [id |-> text.id, len |-> IF text.len > 30 THEN 33 ELSE text.len,
     tail |-> IF text.len > 30 THEN "dots" ELSE ""]

RECURSIVE InsertAsc(_, _)
InsertAsc(x, s) ==
    IF s = <<>> THEN <<x>>
    ELSE IF Head(s).created_at <= x.created_at THEN <<Head(s)>> \o InsertAsc(x, Tail(s))
    ELSE <<x>> \o s

RECURSIVE OrderAsc(_)
OrderAsc(s) ==
    IF s = <<>> THEN <<>>
    ELSE InsertAsc(s[Len(s)], OrderAsc(SubSeq(s, 1, Len(s) - 1)))

Reverse(s) == [i \in 1..Len(s) |-> s[Len(s) + 1 - i]]

\* select id, title, created_at from user_chats where user_id = .. and tool_name = ..
\* order by created_at desc, as the caller caller_ sees it under the select policy
selectChats(chats, caller_, uid_, tool) ==
    LET rows == SelectSeq(chats, LAMBDA c : c.user_id = caller_ /\ c.user_id = uid_
                                            /\ c.tool_name = tool)
        desc == Reverse(OrderAsc(rows))
    IN  [i \in 1..Len(desc) |-> [id |-> desc[i].id, title |-> desc[i].title,
                                 created_at |-> desc[i].created_at]]

ChatOwner(chats, cid) ==
    IF SelectSeqIdx(chats, cid, 1) = 0 THEN NoUser
    ELSE chats[SelectSeqIdx(chats, cid, 1)].user_id

\* select * from chat_messages where chat_id = .. order by created_at asc, as the
\* caller sees it under the select policy
selectMessages(chats, msgs, caller_, cid) ==
    OrderAsc(SelectSeq(msgs, LAMBDA m : m.chat_id = cid /\ ChatOwner(chats, cid) = caller_))

\* insert into chat_messages (..) under the insert policy
insertMessages(chats, msgs, caller_, rows) ==
    IF \A i \in 1..Len(rows) : ChatOwner(chats, rows[i].chat_id) = caller_
    THEN msgs \o rows ELSE msgs

\* delete from chat_messages where chat_id = ..: row-level security is enabled and
\* the schema defines no delete policy, so no row qualifies
deleteMessages(chats, msgs, caller_, cid) == msgs

\* loadChatInfo's mapping of the rows to displayed messages
FormatRow(g, row) ==
    IF g = "doubt" THEN [from |-> row.sender, text |-> row.text_content,
                         sources |-> row.sources]
    ELSE [from |-> row.sender, text |-> row.text_content]

FormatRows(g, rows) ==
    IF rows = <<>> THEN <<WELCOME_MSG>>
    ELSE [i \in 1..Len(rows) |-> FormatRow(g, rows[i])]

MsgRow(cid, who, text, srcs, t) ==
    [chat_id |-> cid, sender |-> who, text_content |-> text, sources |-> srcs,
     created_at |-> t]

DbOpen(g, ok) ==
    /\ Build = "db"
    /\ gem = NoGem /\ g = Tool
    /\ gem' = g
    /\ MountState(g)
    /\ sessions' = IF isAuthenticated /\ ok
                   THEN selectChats(user_chats, userId, userId, tool_name(g)) ELSE <<>>
    /\ UNCHANGED <<ragVars, busVars, probeVars,
                   variant, userId, orphan, store, user_chats, chat_messages, now, nextId,
                   sent>>

\* the part of sendQuestion between the creation of the chat and the next await
DbAfterCreate(c, cid) ==
    /\ messages' = Append(messages, [from |-> "user", text |-> c.question])
    /\ loading' = TRUE
    /\ inflight' = [c EXCEPT !.activeChatId = cid,
                             !.pc = IF c.userId # NoUser /\ cid # Null
                                    THEN "savingUser" ELSE "asking"]

\* sendQuestion up to its first await
DbSend(q) ==
    /\ Build = "db"
    /\ gem \in ChatGems
    /\ ~loading /\ inflight = NoReq
    /\ sent < MaxRequests
    /\ q = Question(sent + 1)
    /\ sent' = sent + 1
    /\ LET c == [kind |-> "dbask", pc |-> "creating", gem |-> gem, userId |-> userId,
                 question |-> q, activeChatId |-> sessionId, answer |-> NoText,
                 sources |-> <<>>]
       IN  IF isAuthenticated /\ sessionId = Null
           THEN /\ inflight' = c
                /\ UNCHANGED <<messages, loading>>
           ELSE DbAfterCreate(c, sessionId)
    /\ UNCHANGED <<ragVars, busVars, probeVars,
                   variant, userId, gem, sessionId, inputText, summary, errorMsg, orphan,
                   store, sessions, user_chats, chat_messages, now, nextId>>

\* the insert into user_chats returns (ok), then loadChatSessions (okList)
DbCreated(ok, okList) ==
    /\ Build = "db"
    /\ inflight # NoReq /\ inflight.kind = "dbask" /\ inflight.pc = "creating"
    /\ LET c == inflight IN
       IF ok
       THEN LET chats == Append(user_chats,
                            [id |-> nextId, user_id |-> c.userId,
                             tool_name |-> tool_name(c.gem),
                             title |-> TitleDb(c.question), created_at |-> now + 1,
                             updated_at |-> now + 1])
            IN  /\ user_chats' = chats
                /\ now' = now + 1
                /\ nextId' = nextId + 1
                /\ sessionId' = nextId
                /\ sessions' = IF okList
                               THEN selectChats(chats, c.userId, c.userId, tool_name(c.gem))
                               ELSE sessions
                /\ DbAfterCreate(c, nextId)
       ELSE /\ DbAfterCreate(c, Null)
            /\ UNCHANGED <<user_chats, now, nextId, sessionId, sessions>>
    /\ UNCHANGED <<ragVars, busVars, probeVars,
                   variant, userId, gem, inputText, summary, errorMsg, orphan, store,
                   chat_messages, sent>>

\* the insert of the user message returns; the request to the gateway goes out
DbUserSaved(ok) ==
    /\ Build = "db"
    /\ inflight # NoReq /\ inflight.kind = "dbask" /\ inflight.pc = "savingUser"
    /\ LET c == inflight IN
       /\ chat_messages' = IF ok
                           THEN insertMessages(user_chats, chat_messages, c.userId,
                                    <<MsgRow(c.activeChatId, "user", c.question, <<>>, now + 1)>>)
                           ELSE chat_messages
       /\ now' = IF ok THEN now + 1 ELSE now
       /\ inflight' = [c EXCEPT !.pc = "asking"]
    /\ UNCHANGED <<ragVars, busVars, probeVars,
                   variant, userId, gem, messages, sessionId, loading, inputText, summary,
                   errorMsg, orphan, store, sessions, user_chats, nextId, sent>>

\* the gateway answered
DbReply(answer, srcs) ==
    /\ Build = "db"
    /\ inflight # NoReq /\ inflight.kind = "dbask" /\ inflight.pc = "asking"
    /\ LET c == inflight IN
       /\ messages' = Append(messages, BotMsg(c.gem, answer, srcs))
       /\ IF c.userId # NoUser /\ c.activeChatId # Null
          THEN /\ inflight' = [c EXCEPT !.pc = "savingBot", !.answer = answer,
                                        !.sources = srcs]
               /\ UNCHANGED loading
          ELSE /\ inflight' = NoReq
               /\ loading' = FALSE
    /\ UNCHANGED <<ragVars, busVars, probeVars,
                   variant, userId, gem, sessionId, inputText, summary, errorMsg, orphan,
                   store, sessions, user_chats, chat_messages, now, nextId, sent>>

\* fetch or res.json() threw
DbFail ==
    /\ Build = "db"
    /\ inflight # NoReq /\ inflight.kind = "dbask" /\ inflight.pc = "asking"
    /\ messages' = Append(messages, CatchMsg(inflight.gem))
    /\ loading' = FALSE
    /\ inflight' = NoReq
    /\ UNCHANGED <<ragVars, busVars, probeVars,
                   variant, userId, gem, sessionId, inputText, summary, errorMsg, orphan,
                   store, sessions, user_chats, chat_messages, now, nextId, sent>>

\* the row a chat screen inserts for the bot message (NotesGenerator passes no sources:
\* the column takes its default)
BotRow(g, cid, answer, srcs, t) ==
    IF g = "doubt" THEN MsgRow(cid, "bot", answer, srcs, t)
    ELSE MsgRow(cid, "bot", answer, <<>>, t)

\* the insert of the bot message returns
DbBotSaved(ok) ==
    /\ Build = "db"
    /\ inflight # NoReq /\ inflight.kind = "dbask" /\ inflight.pc = "savingBot"
    /\ LET c == inflight IN
       /\ chat_messages' = IF ok
                           THEN insertMessages(user_chats, chat_messages, c.userId,
                                    <<BotRow(c.gem, c.activeChatId, c.answer, c.sources,
                                             now + 1)>>)
                           ELSE chat_messages
       /\ now' = IF ok THEN now + 1 ELSE now
    /\ loading' = FALSE
    /\ inflight' = NoReq
    /\ UNCHANGED <<ragVars, busVars, probeVars,
                   variant, userId, gem, messages, sessionId, inputText, summary, errorMsg,
                   orphan, store, sessions, user_chats, nextId, sent>>

\* handleNewChat
DbNewChat ==
    /\ Build = "db"
    /\ gem \in ChatGems
    /\ isAuthenticated
    /\ sessionId' = Null
    /\ messages' = <<WELCOME_MSG>>
    /\ UNCHANGED <<ragVars, busVars, probeVars,
                   variant, userId, gem, loading, inputText, summary, errorMsg, inflight,
                   orphan, store, sessions, user_chats, chat_messages, now, nextId, sent>>

\* loadChatInfo(chatId), chatId an entry of the sidebar
DbLoadChat(i, ok) ==
    /\ Build = "db"
    /\ gem \in ChatGems
    /\ isAuthenticated
    /\ i \in 1..Len(sessions)
    /\ IF ok
       THEN /\ sessionId' = sessions[i].id
            /\ messages' = FormatRows(gem, selectMessages(user_chats, chat_messages, userId,
                                                         sessions[i].id))
       ELSE UNCHANGED <<sessionId, messages>>
    /\ UNCHANGED <<ragVars, busVars, probeVars,
                   variant, userId, gem, loading, inputText, summary, errorMsg, inflight,
                   orphan, store, sessions, user_chats, chat_messages, now, nextId, sent>>

\* Summarizer.jsx: handleSummarize up to its await
DbSummarize ==
    /\ Build = "db"
    /\ gem = "summarizer"
    /\ ~loading /\ inflight = NoReq /\ inputText # NoText
    /\ sent < MaxRequests
    /\ sent' = sent + 1
    /\ loading' = TRUE
    /\ summary' = NoText
    /\ errorMsg' = NoText
    /\ inflight' = [kind |-> "dbsum", pc |-> "asking", gem |-> gem, userId |-> userId,
                    inputText |-> inputText, activeChatId |-> sessionId,
                    summary |-> NoText]
    /\ UNCHANGED <<ragVars, busVars, probeVars,
                   variant, userId, gem, messages, sessionId, inputText, orphan, store,
                   sessions, user_chats, chat_messages, now, nextId>>

\* the gateway answered res.ok
DbSummaryReply(sum) ==
    /\ Build = "db"
    /\ inflight # NoReq /\ inflight.kind = "dbsum" /\ inflight.pc = "asking"
    /\ summary' = sum
    /\ LET c == inflight IN
       IF c.userId # NoUser
       THEN /\ inflight' = [c EXCEPT !.summary = sum,
                                     !.pc = IF c.activeChatId = Null THEN "creating"
                                            ELSE "deleting"]
            /\ UNCHANGED loading
       ELSE /\ inflight' = NoReq
            /\ loading' = FALSE
    /\ UNCHANGED <<ragVars, busVars, probeVars,
                   variant, userId, gem, messages, sessionId, inputText, errorMsg, orphan,
                   store, sessions, user_chats, chat_messages, now, nextId, sent>>

\* the reply is not ok, or fetch threw
DbSummaryError(thrown) ==
    /\ Build = "db"
    /\ inflight # NoReq /\ inflight.kind = "dbsum" /\ inflight.pc = "asking"
    /\ errorMsg' = IF thrown THEN CannotConnect ELSE ErrOccurred
    /\ loading' = FALSE
    /\ inflight' = NoReq
    /\ UNCHANGED <<ragVars, busVars, probeVars,
                   variant, userId, gem, messages, sessionId, inputText, summary, orphan,
                   store, sessions, user_chats, chat_messages, now, nextId, sent>>

\* the insert into user_chats returns (ok), then loadChatSessions (okList)
DbSummaryCreated(ok, okList) ==
    /\ Build = "db"
    /\ inflight # NoReq /\ inflight.kind = "dbsum" /\ inflight.pc = "creating"
    /\ LET c == inflight IN
       IF ok
       THEN LET chats == Append(user_chats,
                            [id |-> nextId, user_id |-> c.userId,
                             tool_name |-> tool_name(c.gem),
                             title |-> TitleDb(c.inputText), created_at |-> now + 1,
                             updated_at |-> now + 1])
            IN  /\ user_chats' = chats
                /\ now' = now + 1
                /\ nextId' = nextId + 1
                /\ sessionId' = nextId
                /\ sessions' = IF okList
                               THEN selectChats(chats, c.userId, c.userId, tool_name(c.gem))
                               ELSE sessions
                /\ inflight' = [c EXCEPT !.activeChatId = nextId, !.pc = "deleting"]
                /\ UNCHANGED loading
       ELSE /\ inflight' = NoReq
            /\ loading' = FALSE
            /\ UNCHANGED <<user_chats, now, nextId, sessionId, sessions>>
    /\ UNCHANGED <<ragVars, busVars, probeVars,
                   variant, userId, gem, messages, inputText, summary, errorMsg, orphan,
                   store, chat_messages, sent>>

\* the delete of the chat's previous messages returns
DbSummaryDeleted ==
    /\ Build = "db"
    /\ inflight # NoReq /\ inflight.kind = "dbsum" /\ inflight.pc = "deleting"
    /\ chat_messages' = deleteMessages(user_chats, chat_messages, inflight.userId,
                                       inflight.activeChatId)
    /\ inflight' = [inflight EXCEPT !.pc = "inserting"]
    /\ UNCHANGED <<ragVars, busVars, probeVars,
                   variant, userId, gem, messages, sessionId, loading, inputText, summary,
                   errorMsg, orphan, store, sessions, user_chats, now, nextId, sent>>

\* the insert of the two messages (one statement) returns
DbSummaryInserted(ok) ==
    /\ Build = "db"
    /\ inflight # NoReq /\ inflight.kind = "dbsum" /\ inflight.pc = "inserting"
    /\ LET c == inflight IN
       /\ chat_messages' = IF ok
                           THEN insertMessages(user_chats, chat_messages, c.userId,
                                    << MsgRow(c.activeChatId, "user", c.inputText, <<>>, now + 1),
                                       MsgRow(c.activeChatId, "bot", c.summary, <<>>, now + 1) >>)
                           ELSE chat_messages
       /\ now' = IF ok THEN now + 1 ELSE now
    /\ loading' = FALSE
    /\ inflight' = NoReq
    /\ UNCHANGED <<ragVars, busVars, probeVars,
                   variant, userId, gem, messages, sessionId, inputText, summary, errorMsg,
                   orphan, store, sessions, user_chats, nextId, sent>>

\* handleNewSummary
DbNewSummary ==
    /\ Build = "db"
    /\ gem = "summarizer"
    /\ isAuthenticated
    /\ sessionId' = Null
    /\ summary' = NoText
    /\ inputText' = NoText
    /\ UNCHANGED <<ragVars, busVars, probeVars,
                   variant, userId, gem, messages, loading, errorMsg, inflight, orphan,
                   store, sessions, user_chats, chat_messages, now, nextId, sent>>

SenderRows(rows, who) == SelectSeq(rows, LAMBDA m : m.sender = who)

\* loadChatInfo(chatId) of the Summarizer
DbLoadSummary(i, ok) ==
    /\ Build = "db"
    /\ gem = "summarizer"
    /\ isAuthenticated
    /\ i \in 1..Len(sessions)
    /\ IF ok
       THEN LET data == selectMessages(user_chats, chat_messages, userId, sessions[i].id)
                userMsg == SenderRows(data, "user")
                botMsg == SenderRows(data, "bot")
            IN  /\ sessionId' = sessions[i].id
                /\ inputText' = IF userMsg = <<>> THEN NoText ELSE userMsg[1].text_content
                /\ summary' = IF botMsg = <<>> THEN NoText ELSE botMsg[1].text_content
       ELSE UNCHANGED <<sessionId, inputText, summary>>
    /\ UNCHANGED <<ragVars, busVars, probeVars,
                   variant, userId, gem, messages, loading, errorMsg, inflight, orphan,
                   store, sessions, user_chats, chat_messages, now, nextId, sent>>

----------------------------------------------------------------------------
(* Specification *)

InitScreen ==
    /\ userId = NoUser /\ gem = NoGem
    /\ messages = <<>> /\ sessionId = Null /\ loading = FALSE
    /\ inputText = NoText /\ summary = NoText /\ errorMsg = NoText
    /\ inflight = NoReq /\ orphan = NoReq
    /\ store = <<>> /\ sessions = <<>>
    /\ user_chats = <<>> /\ chat_messages = <<>>
    /\ now = 0 /\ nextId = 1
    /\ sent = 0
    /\ biotech_rag_chunks = <<>> /\ rag = NoCall
    /\ listeners = {} /\ invoked = NoDispatch
    /\ backendReady = "null" /\ indexReady = FALSE /\ probe = NoProbe

Init ==
    /\ variant \in [build : {"local", "db"}, tool : Gems]
    /\ InitScreen

NextLocal ==
    \/ \E g \in Gems : LocalOpen(g)
    \/ \E q \in Questions : LocalSend(q)
    \/ \E r \in Replies, full \in BOOLEAN, dt \in 0..1 : LocalReply(r.text, r.sources, full, dt)
    \/ LocalFail
    \/ \E i \in 1..MaxShown : LocalSelect(i)
    \/ \E full \in BOOLEAN, dt \in 0..1 : LocalNewChat(full, dt)
    \/ \E i \in 1..MaxShown : LocalDelete(i)
    \/ \E r \in Replies, full \in BOOLEAN, dt \in 0..1 : LocalOrphanReply(r.text, r.sources, full, dt)
    \/ LocalOrphanFail
    \/ LocalSummarize
    \/ \E a \in Answers, full \in BOOLEAN, dt \in 0..1 : LocalSummaryReply(a, full, dt)
    \/ \E d \in {NoText}, thrown \in BOOLEAN : LocalSummaryError(d, thrown)
    \/ \E a \in Answers, full \in BOOLEAN, dt \in 0..1 : LocalOrphanSummaryReply(a, full, dt)
    \/ \E i \in 1..MaxShown : LocalSelectSummary(i)
    \/ \E full \in BOOLEAN, dt \in 0..1 : LocalNewSummary(full, dt)

NextDb ==
    \/ \E g \in Gems, ok \in BOOLEAN : DbOpen(g, ok)
    \/ \E q \in Questions : DbSend(q)
    \/ \E ok \in BOOLEAN, okList \in BOOLEAN : DbCreated(ok, okList)
    \/ \E ok \in BOOLEAN : DbUserSaved(ok)
    \/ \E r \in Replies : DbReply(r.text, r.sources)
    \/ DbFail
    \/ \E ok \in BOOLEAN : DbBotSaved(ok)
    \/ DbNewChat
    \/ \E i \in 1..MaxShown, ok \in BOOLEAN : DbLoadChat(i, ok)
    \/ DbSummarize
    \/ \E a \in Answers : DbSummaryReply(a)
    \/ \E thrown \in BOOLEAN : DbSummaryError(thrown)
    \/ \E ok \in BOOLEAN, okList \in BOOLEAN : DbSummaryCreated(ok, okList)
    \/ DbSummaryDeleted
    \/ \E ok \in BOOLEAN : DbSummaryInserted(ok)
    \/ DbNewSummary
    \/ \E i \in 1..MaxShown, ok \in BOOLEAN : DbLoadSummary(i, ok)

Next ==
    \/ \E u \in Users : Login(u)
    \/ handleLogout
    \/ onBack
    \/ \E t \in {Question(1), Question(2), NoText} : SetInputText(t)
    \/ NextLocal
    \/ NextDb

Spec == Init /\ [][Next]_vars

----------------------------------------------------------------------------
(* The exported helpers of ChatHistorySidebar.jsx called directly, by any      *)
(* signed-in or anonymous caller, with any session id                          *)

ApiUsers == {"u1", "u2"}
ApiTexts == {Question(1), Question(2)}

\* the caller changes
ApiSignIn(u) ==
    /\ Build = "api"
    /\ u # userId
    /\ userId' = u
    /\ UNCHANGED <<ragVars, busVars, probeVars,
                   variant, gem, messages, sessionId, loading, inputText, summary, errorMsg,
                   inflight, orphan, store, sessions, user_chats, chat_messages, now,
                   nextId, sent>>

\* saveSession({ userId, feature, title, messages, sessionId }); the id it returns is
\* kept in sessionId
ApiSave(feature, text, sid, full, dt) ==
    /\ Build = "api"
    /\ sid < nextId        \* an id some session was created with, or none
    /\ sent < MaxRequests
    /\ now + dt <= MaxTime /\ now' = now + dt
    /\ LET msgs == << [from |-> "user", text |-> text],
                      [from |-> "bot", text |-> Txt("a1", 40)] >>
           r == saveSession(store, full, now + dt, nextId, userId, feature, TitleOf(text),
                            msgs, sid)
       IN  /\ store' = r.store
           /\ nextId' = IF Len(r.store) > Len(store) THEN nextId + 1 ELSE nextId
           /\ sessionId' = IF r.threw THEN sessionId ELSE r.ret
    /\ sent' = sent + 1
    /\ UNCHANGED <<ragVars, busVars, probeVars,
                   variant, userId, gem, messages, loading, inputText, summary, errorMsg,
                   inflight, orphan, sessions, user_chats, chat_messages>>

\* loadSession(sessionId); what it returns is kept in sessionId and messages
ApiLoad(sid) ==
    /\ Build = "api"
    /\ sid < nextId        \* an id some session was created with, or none
    /\ IF HasSession(store, sid)
       THEN /\ sessionId' = loadSession(store, sid).id
            /\ messages' = loadSession(store, sid).messages
       ELSE /\ sessionId' = Null
            /\ messages' = <<>>
    /\ UNCHANGED <<ragVars, busVars, probeVars,
                   variant, userId, gem, loading, inputText, summary, errorMsg, inflight,
                   orphan, store, sessions, user_chats, chat_messages, now, nextId, sent>>

\* deleteSession(e, sessionId)
ApiDelete(sid) ==
    /\ Build = "api"
    /\ sid < nextId        \* an id some session was created with, or none
    /\ store' = deleteSession(store, sid)
    /\ sessions' = SelectSeq(sessions, LAMBDA x : x.id # sid)
    /\ UNCHANGED <<ragVars, busVars, probeVars,
                   variant, userId, gem, messages, sessionId, loading, inputText, summary,
                   errorMsg, inflight, orphan, user_chats, chat_messages, now, nextId, sent>>

\* refreshSessions() of a sidebar mounted for the caller and a feature
ApiRefresh(feature) ==
    /\ Build = "api"
    /\ sessions' = SidebarList(store, feature, userId)
    /\ UNCHANGED <<ragVars, busVars, probeVars,
                   variant, userId, gem, messages, sessionId, loading, inputText, summary,
                   errorMsg, inflight, orphan, store, user_chats, chat_messages, now,
                   nextId, sent>>

InitApi ==
    /\ variant = [build |-> "api", tool |-> "doubt"]
    /\ InitScreen

NextApi ==
    \/ \E u \in ApiUsers \cup {NoUser} : ApiSignIn(u)
    \/ \E f \in ChatGems, t \in ApiTexts, sid \in 0..MaxShown, full \in BOOLEAN, dt \in 0..1 :
          ApiSave(f, t, sid, full, dt)
    \/ \E sid \in 1..MaxShown : ApiLoad(sid)
    \/ \E sid \in 1..MaxShown : ApiDelete(sid)
    \/ \E f \in ChatGems : ApiRefresh(f)

SpecApi == InitApi /\ [][NextApi]_vars

----------------------------------------------------------------------------
(* Title derivation: a signed-in user's first save on each screen, for every   *)
(* length of the text the title is cut from                                    *)

TitleTexts == {Txt("t", n) : n \in 0..MaxLen}

TitleVariants ==
    [build : {"local"}, tool : Gems \cup {"ppt"}] \cup [build : {"db"}, tool : Gems]

\* the first save of a conversation whose first user text is inputText
CreateTitled ==
    /\ store = <<>> /\ user_chats = <<>>
    /\ inputText # NoText \/ (Build = "local" /\ Tool = "summarizer")
    /\ IF Build = "db"
       THEN /\ user_chats' = Append(user_chats,
                                [id |-> nextId, user_id |-> userId,
                                 tool_name |-> tool_name(Tool),
                                 title |-> TitleDb(inputText), created_at |-> now + 1,
                             updated_at |-> now + 1])
            /\ now' = now + 1
            /\ UNCHANGED store
       ELSE /\ store' =
                IF Tool \in ChatGems
                THEN persistChat(store, FALSE, now, nextId, userId, Tool,
                                 <<WELCOME_MSG, [from |-> "user", text |-> inputText]>>,
                                 Null).store
                ELSE IF Tool = "summarizer"
                THEN persistSummary(store, FALSE, now, nextId, userId, inputText,
                                    Txt("a1", 40), Null).store
                ELSE saveSession(store, FALSE, now, nextId, userId, "ppt",
                                 TitlePpt(inputText),
                                 <<[from |-> "user", text |-> inputText]>>, Null).store
            /\ UNCHANGED <<user_chats, now>>
    /\ sessionId' = nextId
    /\ nextId' = nextId + 1
    /\ UNCHANGED <<ragVars, busVars, probeVars,
                   variant, userId, gem, messages, loading, inputText, summary, errorMsg,
                   inflight, orphan, sessions, chat_messages, sent>>

InitTitle ==
    /\ variant \in TitleVariants
    /\ userId \in Users /\ gem = NoGem
    /\ messages = <<>> /\ sessionId = Null /\ loading = FALSE
    /\ inputText \in TitleTexts /\ summary = NoText /\ errorMsg = NoText
    /\ inflight = NoReq /\ orphan = NoReq
    /\ store = <<>> /\ sessions = <<>>
    /\ user_chats = <<>> /\ chat_messages = <<>>
    /\ now = 0 /\ nextId = 1
    /\ sent = 0
    /\ biotech_rag_chunks = <<>> /\ rag = NoCall
    /\ listeners = {} /\ invoked = NoDispatch
    /\ backendReady = "null" /\ indexReady = FALSE /\ probe = NoProbe

NextTitle == CreateTitled

SpecTitle == InitTitle /\ [][NextTitle]_vars

----------------------------------------------------------------------------
(* What the stores hold, read the way the screens read it *)

\* msg.sources as the renderer takes it: a message without the field shows no citation
Citations(m) == IF "sources" \in DOMAIN m THEN m.sources ELSE <<>>

Normal(m) == [from |-> m.from, text |-> m.text, sources |-> Citations(m)]

RowMsg(row) == [from |-> row.sender, text |-> row.text_content, sources |-> row.sources]

\* the ids of the stored sessions
IdsIn(chats, st) ==
    IF Build = "db" THEN {chats[i].id : i \in DOMAIN chats}
    ELSE {st[i].id : i \in DOMAIN st}

StoredIds == IdsIn(user_chats, store)

\* the messages its owner loads for a stored session, oldest first
MsgsIn(chats, rows_, st, id) ==
    IF Build = "db"
    THEN LET rows == selectMessages(chats, rows_, ChatOwner(chats, id), id)
         IN  [i \in DOMAIN rows |-> RowMsg(rows[i])]
    ELSE LET m == loadSession(st, id).messages
         IN  [i \in DOMAIN m |-> Normal(m[i])]

StoredMsgs(id) == MsgsIn(user_chats, chat_messages, store, id)

StoredTitle(id) ==
    IF Build = "db" THEN user_chats[SelectSeqIdx(user_chats, id, 1)].title
    ELSE loadSession(store, id).title

StoredOwner(id) ==
    IF Build = "db" THEN ChatOwner(user_chats, id) ELSE loadSession(store, id).userId

LastTwo(m) == IF Len(m) < 2 THEN <<>> ELSE SubSeq(m, Len(m) - 1, Len(m))

Exchange(q, a, srcs) ==
    << [from |-> "user", text |-> q, sources |-> <<>>],
       [from |-> "bot", text |-> a, sources |-> srcs] >>

IsPrefix(a, b) == Len(a) <= Len(b) /\ SubSeq(b, 1, Len(a)) = a

\* the answer a stands right behind the question q in msgs
AnswerIn(msgs, q, a) ==
    \E i \in 1..(Len(msgs) - 1) :
        /\ msgs[i].from = "user" /\ msgs[i].text = q
        /\ msgs[i + 1].from = "bot" /\ msgs[i + 1].text = a

----------------------------------------------------------------------------
(* Properties *)

\* C1: once a reply step has committed an exchange to a session, loading that
\* session ends with the user message followed by the bot message, the bot
\* message carrying exactly the citations the gateway returned - on every tool.
C1_RoundTrip ==
    [][ /\ \A r \in Replies, dt \in 0..1 :
             ( /\ LocalReply(r.text, r.sources, FALSE, dt)
               /\ sessionId' \in StoredIds' )
             => LastTwo(MsgsIn(user_chats', chat_messages', store', sessionId'))
                    = Exchange(inflight.question, r.text, r.sources)
        /\ \A a \in Answers, dt \in 0..1 :
             ( /\ LocalSummaryReply(a, FALSE, dt)
               /\ sessionId' \in StoredIds' )
             => LET shown == IF inflight.inputText = NoText THEN PdfUpload
                             ELSE inflight.inputText
                IN  LastTwo(MsgsIn(user_chats', chat_messages', store', sessionId')) = Exchange(shown, a, <<>>)
        /\ ( /\ DbBotSaved(TRUE)
             /\ LET before == StoredMsgs(inflight.activeChatId)
                IN  /\ before # <<>>
                    /\ before[Len(before)].from = "user"
                    /\ before[Len(before)].text = inflight.question )
           => LET c == inflight
              IN  LastTwo(MsgsIn(user_chats', chat_messages', store', c.activeChatId))
                      = Exchange(c.question, c.answer, c.sources)
      ]_vars

\* C2: a session that took two successful exchanges one after the other holds
\* exactly four messages, in the order user, bot, user, bot.
C2_FourMessages ==
    \A id \in StoredIds :
        LET m == StoredMsgs(id)
            asked == SelectSeq(m, LAMBDA x : x.from = "user")
            answered == SelectSeq(m, LAMBDA x : x.from = "bot" /\ x.text \in Answers)
        IN  ( /\ Len(asked) = 2
              /\ asked[1].text = Question(1) /\ asked[2].text = Question(2)
              /\ Len(answered) = 2 )
            => [i \in DOMAIN m |-> m[i].from] = <<"user", "bot", "user", "bot">>

Complete(m) ==
    /\ \E i \in DOMAIN m : m[i].from = "user"
    /\ \A i \in DOMAIN m :
          m[i].from = "user" => (i < Len(m) /\ m[i + 1].from = "bot")

\* the session id is not listed, or holds complete exchanges only
CompleteIn(chats, rows_, st, id) ==
    id \in IdsIn(chats, st) => Complete(MsgsIn(chats, rows_, st, id))

\* C4: when committing an exchange fails at any step - the request to the
\* gateway fails, a statement is answered with an error, the store throws - the
\* session the exchange was being committed to is afterwards either not listed
\* or holds complete exchanges only: every user message with a bot message
\* behind it.
C4_NoPartialSession ==
    [][ /\ (DbFail \/ DbBotSaved(FALSE))
           => CompleteIn(user_chats', chat_messages', store', inflight.activeChatId)
        /\ LocalFail
           => CompleteIn(user_chats', chat_messages', store', inflight.sessionId)
        /\ \A r \in Replies, dt \in 0..1 :
             ( /\ LocalReply(r.text, r.sources, TRUE, dt)
               /\ store' = store )
             => CompleteIn(user_chats', chat_messages', store', inflight.sessionId)
      ]_vars

\* C5: a write that throws after the answer was received is not shown to the
\* user as a failure to reach the server (the claim wants it marked as not saved).
C5_NotTransportError ==
    [][ /\ \A r \in Replies, dt \in 0..1 :
             ( /\ LocalReply(r.text, r.sources, TRUE, dt)
               /\ persistChat(store, TRUE, now + dt, nextId, inflight.userId, inflight.gem,
                              Append(inflight.newMessages,
                                     BotMsg(inflight.gem, r.text, r.sources)),
                              inflight.sessionId).threw )
             => messages'[Len(messages')].text # CannotReach
        /\ \A a \in Answers, dt \in 0..1 :
             ( /\ LocalSummaryReply(a, TRUE, dt)
               /\ persistSummary(store, TRUE, now + dt, nextId, inflight.userId,
                                 inflight.inputText, a, inflight.sessionId).threw )
             => errorMsg' # CannotConnect
      ]_vars

\* a step taken for a guest: by the mounted screen of a signed-out user, or by a
\* handler left over from a guest's unmounted screen
GuestStep ==
    \/ userId = NoUser /\ userId' = NoUser /\ orphan' = orphan
    \/ orphan # NoReq /\ orphan.userId = NoUser /\ orphan' = NoReq

\* C6: no step taken for a guest writes to localStorage or to the tables, and
\* every stored session belongs to a signed-in user: a real owner's list holds
\* nothing of a guest's exchanges.
C6_GuestPersistsNothing ==
    [][ /\ GuestStep => UNCHANGED <<store, user_chats, chat_messages>>
        /\ \A id \in StoredIds' : StoredOwner(id)' \in Users
      ]_vars

\* C6's case: a guest has the answer to the second question on screen while the
\* store holds a session of the user who was signed in before.
C6_Witness ==
    /\ userId = NoUser /\ gem \in ChatGems /\ ~loading
    /\ AnswerIn(messages, Question(2), Txt("a1", 40))
    /\ StoredIds # {}

\* C8: deleting a session from the sidebar removes it from the store and from
\* every list (the one on screen and any recomputed one); a session that is
\* gone never comes back, and the sidebar of the localStorage screens never
\* shows one that is gone.
C8_DeletedIsGone ==
    [][ /\ \A i \in 1..MaxShown :
             LocalDelete(i)
             => LET sid == sessions[i].id
                IN  /\ ~HasSession(store', sid)
                    /\ \A j \in DOMAIN sessions' : sessions'[j].id # sid
                    /\ \A f \in Gems, u \in Users :
                         \A j \in DOMAIN refreshSessions(store', f, u) :
                            refreshSessions(store', f, u)[j].id # sid
        /\ \A id \in 1..(nextId - 1) :
             (Build = "local" /\ ~HasSession(store, id)) => ~HasSession(store', id)
        /\ Build = "local" => \A j \in DOMAIN sessions' : HasSession(store', sessions'[j].id)
      ]_vars

\* C8's case: a session that was created has been deleted while another one is
\* still stored and listed.
C8_Witness ==
    /\ Build = "local" /\ isAuthenticated /\ gem # NoGem
    /\ \E id \in 1..(nextId - 1) : ~HasSession(store, id)
    /\ store # <<>> /\ sessions # <<>>

\* C9: the messages of a stored session only grow: what was stored before a
\* step is a prefix of what is stored after it.
C9_AppendOnly ==
    [][ \A id \in StoredIds :
          id \in StoredIds' => IsPrefix(StoredMsgs(id), StoredMsgs(id)')
      ]_vars

\* C10: the title a session was created with never changes.
C10_TitleFixed ==
    [][ \A id \in StoredIds :
          id \in StoredIds' => StoredTitle(id)' = StoredTitle(id)
      ]_vars

\* C7: a caller who does not own a session gets nothing from loadSession, and no
\* saveSession or deleteSession of theirs changes or removes it.
C7_OwnerOnly ==
    [][ /\ \A sid \in 1..MaxShown :
             (ApiLoad(sid) /\ HasSession(store, sid) /\ loadSession(store, sid).userId # userId)
             => (sessionId' = Null /\ messages' = <<>>)
        /\ \A id \in StoredIds :
             StoredOwner(id) # userId
             => (HasSession(store', id) /\ loadSession(store', id) = loadSession(store, id))
      ]_vars

\* the number of characters of a title's end marker
TailLen(t) == IF t.tail = "ellipsis" THEN 1 ELSE IF t.tail = "dots" THEN 3 ELSE 0

UpdatedIn(chats, st, id) ==
    IF Build = "db" THEN chats[SelectSeqIdx(chats, id, 1)].updated_at
    ELSE loadSession(st, id).updatedAt

CreatedIn(chats, st, id) ==
    IF Build = "db" THEN chats[SelectSeqIdx(chats, id, 1)].created_at
    ELSE loadSession(st, id).createdAt

\* C12: a step that appends an exchange to an existing session sets that
\* session's updated-at to the time of the append; no step decreases a
\* session's updated-at, and updated-at is never earlier than created-at.
C12_UpdatedAtFollowsAppends ==
    [][ /\ \A id \in StoredIds :
             id \in StoredIds'
             => /\ UpdatedIn(user_chats', store', id) >= UpdatedIn(user_chats, store, id)
                /\ UpdatedIn(user_chats', store', id) >= CreatedIn(user_chats', store', id)
        /\ \A r \in Replies, dt \in 0..1 :
             ( /\ LocalReply(r.text, r.sources, FALSE, dt)
               /\ inflight.sessionId \in StoredIds /\ store' # store )
             => UpdatedIn(user_chats', store', inflight.sessionId) = now'
        /\ \A a \in Answers, dt \in 0..1 :
             ( /\ LocalSummaryReply(a, FALSE, dt)
               /\ inflight.sessionId \in StoredIds /\ store' # store )
             => UpdatedIn(user_chats', store', inflight.sessionId) = now'
        /\ ( /\ DbBotSaved(TRUE) \/ DbSummaryInserted(TRUE)
             /\ chat_messages' # chat_messages )
           => UpdatedIn(user_chats', store', inflight.activeChatId) = now'
      ]_vars

----------------------------------------------------------------------------
(* A later visit: the page is loaded again over the storage that an earlier    *)
(* visit of u1 left behind, one answered request in one session. localStorage  *)
(* and the database outlive the page; the components start from their initial  *)
(* state.                                                                      *)

EarlierReply == CHOOSE r \in Replies : TRUE

EarlierExchange ==
    <<WELCOME_MSG, [from |-> "user", text |-> Question(1)],
      BotMsg(Tool, EarlierReply.text, EarlierReply.sources)>>

EarlierStore ==
    IF Build # "local" THEN <<>>
    ELSE IF Tool \in ChatGems
    THEN persistChat(<<>>, FALSE, 0, 1, "u1", Tool, EarlierExchange, Null).store
    ELSE persistSummary(<<>>, FALSE, 0, 1, "u1", Question(1), EarlierReply.text, Null).store

EarlierChats ==
    IF Build # "db" THEN <<>>
    ELSE <<[id |-> 1, user_id |-> "u1", tool_name |-> tool_name(Tool),
            title |-> TitleDb(Question(1)), created_at |-> 1, updated_at |-> 1]>>

EarlierRows ==
    IF Build # "db" THEN <<>>
    ELSE IF Tool \in ChatGems
    THEN <<MsgRow(1, "user", Question(1), <<>>, 2),
           BotRow(Tool, 1, EarlierReply.text, EarlierReply.sources, 3)>>
    ELSE <<MsgRow(1, "user", Question(1), <<>>, 2),
           MsgRow(1, "bot", EarlierReply.text, <<>>, 2)>>

EarlierNow == IF Build # "db" THEN 0 ELSE IF Tool \in ChatGems THEN 3 ELSE 2

\* the storage of the earlier visit, as a state of Spec
EarlierVisit ==
    /\ store = EarlierStore /\ user_chats = EarlierChats /\ chat_messages = EarlierRows
    /\ now = EarlierNow /\ nextId = 2

InitReturning ==
    /\ variant \in [build : {"local", "db"}, tool : Gems]
    /\ userId = NoUser /\ gem = NoGem
    /\ messages = <<>> /\ sessionId = Null /\ loading = FALSE
    /\ inputText = NoText /\ summary = NoText /\ errorMsg = NoText
    /\ inflight = NoReq /\ orphan = NoReq
    /\ sessions = <<>>
    /\ EarlierVisit
    /\ sent = 0
    /\ biotech_rag_chunks = <<>> /\ rag = NoCall
    /\ listeners = {} /\ invoked = NoDispatch
    /\ backendReady = "null" /\ indexReady = FALSE /\ probe = NoProbe

SpecReturning == InitReturning /\ [][Next]_vars

\* the list a sidebar shows to owner for feature: refreshSessions in the localStorage
\* build, loadChatSessions in the Supabase build
ListSessions(owner, feature) ==
    IF Build = "db" THEN selectChats(user_chats, owner, owner, tool_name(feature))
    ELSE SidebarList(store, feature, owner)

FeatureOf(id) ==
    IF Build = "db"
    THEN LET t == user_chats[SelectSeqIdx(user_chats, id, 1)].tool_name
         IN  CHOOSE g \in Gems : tool_name(g) = t
    ELSE loadSession(store, id).feature

\* the time of the last append to a stored session: the latest row of the chat (the
\* creation of the chat when it has none), the last save of a localStorage session
LastAppend(id) ==
    IF Build = "db"
    THEN LET ts == {chat_messages[i].created_at :
                      i \in {j \in 1..Len(chat_messages) : chat_messages[j].chat_id = id}}
         IN  IF ts = {} THEN CreatedIn(user_chats, store, id)
             ELSE CHOOSE t \in ts : \A u \in ts : u <= t
    ELSE UpdatedIn(user_chats, store, id)

\* C13: the list for an owner and a feature holds exactly the stored sessions of
\* that owner and feature, each once, in descending order of updated-at, the
\* session appended to most recently first.
C13_ListExactAndOrdered ==
    \A u \in Users, f \in Gems :
        LET l == ListSessions(u, f) IN
        /\ {l[i].id : i \in 1..Len(l)}
             = {id \in StoredIds : StoredOwner(id) = u /\ FeatureOf(id) = f}
        /\ \A i, j \in 1..Len(l) :
             i < j => /\ l[i].id # l[j].id
                      /\ UpdatedIn(user_chats, store, l[i].id)
                           >= UpdatedIn(user_chats, store, l[j].id)
                      /\ LastAppend(l[i].id) >= LastAppend(l[j].id)

----------------------------------------------------------------------------
(* schema.sql: the chunk table and the similarity search match_rag_chunks.    *)
(* An embedding is a position on a line, the cosine distance of two            *)
(* embeddings the distance of their positions, counted in halves: Unit is 1.0. *)

Unit == 2
Embeddings == 0..Unit
Thresholds == 0..Unit
ClassLevels == {"11", "12"}
NullClass == "null"

\* embedding <=> query_embedding
Distance(e, q) == IF e > q THEN e - q ELSE q - e

\* 1 - (embedding <=> query_embedding)
Similarity(e, q) == Unit - Distance(e, q)

\* the tables of n rows: bigserial ids count the insertions
ChunkTables(n) ==
    {[i \in 1..n |-> [id |-> i, class_level |-> f[i][1], embedding |-> f[i][2]]] :
        f \in [1..n -> ClassLevels \X Embeddings]}

\* the first condition of the where clause, with >= in the place of >
AboveThreshold_orEqual(sim, match_threshold) == sim >= match_threshold

\* 1 - (embedding <=> query_embedding) > match_threshold
AboveThreshold(sim, match_threshold) == sim > match_threshold

\* the second condition of the where clause, left out
ClassMatches_ignored(row, p_class_level) == TRUE

\* p_class_level is null or class_level = p_class_level
ClassMatches(row, p_class_level) ==
    p_class_level = NullClass \/ row.class_level = p_class_level

\* the rows (by position in the table) that pass the where clause
Eligible(q, match_threshold, p_class_level) ==
    {i \in 1..Len(biotech_rag_chunks) :
        /\ AboveThreshold(Similarity(biotech_rag_chunks[i].embedding, q), match_threshold)
        /\ ClassMatches(biotech_rag_chunks[i], p_class_level)}

\* order by embedding <=> query_embedding: the orders of the rows in which no row
\* comes before a nearer one. Rows at the same distance have no order of their own:
\* the executor yields them in any order.
Orderings(q, rows_) ==
    {s \in [1..Cardinality(rows_) -> rows_] :
        /\ \A i, j \in DOMAIN s : i # j => s[i] # s[j]
        /\ \A i, j \in DOMAIN s :
             i < j => Distance(biotech_rag_chunks[s[i]].embedding, q)
                        <= Distance(biotech_rag_chunks[s[j]].embedding, q)}

\* limit match_count
Limit(s, match_count) == SubSeq(s, 1, Min(match_count, Len(s)))

\* a row of the returned table
MatchRow(row, q) ==
    [id |-> row.id, class_level |-> row.class_level,
     similarity |-> Similarity(row.embedding, q)]

match_rag_chunks(query_embedding, match_threshold, match_count, p_class_level) ==
    /\ Build = "rag"
    /\ \E s \in Orderings(query_embedding,
                          Eligible(query_embedding, match_threshold, p_class_level)) :
         rag' = [kind |-> "match", query_embedding |-> query_embedding,
                 match_threshold |-> match_threshold, match_count |-> match_count,
                 p_class_level |-> p_class_level,
                 rows |-> Limit([i \in DOMAIN s |->
                                   MatchRow(biotech_rag_chunks[s[i]], query_embedding)],
                                match_count)]
    /\ UNCHANGED <<biotech_rag_chunks, busVars, probeVars, variant, userId, gem, messages, sessionId, loading,
                   inputText, summary, errorMsg, inflight, orphan, store, sessions,
                   user_chats, chat_messages, now, nextId, sent>>

InitRag ==
    /\ variant = [build |-> "rag", tool |-> NoGem]
    /\ biotech_rag_chunks \in UNION {ChunkTables(n) : n \in 0..MaxChunks}
    /\ rag = NoCall
    /\ listeners = {} /\ invoked = NoDispatch
    /\ backendReady = "null" /\ indexReady = FALSE /\ probe = NoProbe
    /\ userId = NoUser /\ gem = NoGem
    /\ messages = <<>> /\ sessionId = Null /\ loading = FALSE
    /\ inputText = NoText /\ summary = NoText /\ errorMsg = NoText
    /\ inflight = NoReq /\ orphan = NoReq
    /\ store = <<>> /\ sessions = <<>>
    /\ user_chats = <<>> /\ chat_messages = <<>>
    /\ now = 0 /\ nextId = 1 /\ sent = 0

NextRag ==
    \E q \in Embeddings, t \in Thresholds, k \in 0..MaxCount,
       c \in ClassLevels \cup {NullClass} : match_rag_chunks(q, t, k, c)

SpecRag == InitRag /\ [][NextRag]_vars

\* the similarity to the last call's query of the table row with this id
SimilarityOf(id) ==
    Similarity(biotech_rag_chunks[id].embedding, rag.query_embedding)

ReturnedIds == {rag.rows[i].id : i \in 1..Len(rag.rows)}

\* C14: every row a call returns has a similarity strictly greater than the
\* call's threshold; a chunk whose similarity is exactly the threshold is not
\* among the returned rows.
C14_StrictlyAboveThreshold ==
    rag.kind = "match"
    => /\ \A i \in 1..Len(rag.rows) : rag.rows[i].similarity > rag.match_threshold
       /\ \A id \in 1..Len(biotech_rag_chunks) :
            SimilarityOf(id) = rag.match_threshold => id \notin ReturnedIds

\* a call that returned a row while the table also holds a chunk of the asked class
\* at exactly the threshold, and the cap left room for it
C14_Witness ==
    /\ rag.kind = "match"
    /\ 0 < Len(rag.rows) /\ Len(rag.rows) < rag.match_count
    /\ \E id \in 1..Len(biotech_rag_chunks) :
         /\ SimilarityOf(id) = rag.match_threshold
         /\ ClassMatches(biotech_rag_chunks[id], rag.p_class_level)

\* the chunks above the last call's threshold, of every class
AboveIds ==
    {id \in 1..Len(biotech_rag_chunks) : SimilarityOf(id) > rag.match_threshold}

\* C15: a call with a class filter returns only chunks of that class, and a
\* call without one treats the chunks of every class above the threshold as
\* eligible: the number of rows is the cap or the number of eligible chunks,
\* whichever is smaller.
C15_ClassFilter ==
    rag.kind = "match"
    => IF rag.p_class_level # NullClass
       THEN /\ \A i \in 1..Len(rag.rows) : rag.rows[i].class_level = rag.p_class_level
            /\ ReturnedIds \subseteq AboveIds
            /\ Len(rag.rows)
                 = Min(rag.match_count,
                       Cardinality({id \in AboveIds :
                          biotech_rag_chunks[id].class_level = rag.p_class_level}))
       ELSE /\ ReturnedIds \subseteq AboveIds
            /\ Len(rag.rows) = Min(rag.match_count, Cardinality(AboveIds))

\* a filtered call that returned a row and left out a chunk of the other class that
\* is above the threshold, with room under the cap
C15_Witness ==
    /\ rag.kind = "match" /\ rag.p_class_level # NullClass
    /\ 0 < Len(rag.rows) /\ Len(rag.rows) < rag.match_count
    /\ \E id \in AboveIds : biotech_rag_chunks[id].class_level # rag.p_class_level

\* C16: a call returns at most match_count rows, in descending similarity, rows
\* of equal similarity in ascending id; the rows are the most similar eligible
\* chunks, so that the result is a function of the table and the arguments.
C16_TopKDeterministic ==
    rag.kind = "match"
    => LET elig == {id \in AboveIds :
                      ClassMatches(biotech_rag_chunks[id], rag.p_class_level)}
       IN  /\ Len(rag.rows) <= rag.match_count
           /\ Len(rag.rows) = Min(rag.match_count, Cardinality(elig))
           /\ ReturnedIds \subseteq elig
           /\ \A i, j \in 1..Len(rag.rows) :
                i < j => \/ rag.rows[i].similarity > rag.rows[j].similarity
                         \/ /\ rag.rows[i].similarity = rag.rows[j].similarity
                            /\ rag.rows[i].id < rag.rows[j].id
           /\ \A id \in elig \ ReturnedIds, i \in 1..Len(rag.rows) :
                \/ rag.rows[i].similarity > SimilarityOf(id)
                \/ /\ rag.rows[i].similarity = SimilarityOf(id)
                   /\ rag.rows[i].id < id

----------------------------------------------------------------------------
(* The refresh events: the sidebar of a mounted screen listens on window for   *)
(* refresh-sidebar-<feature>; the handlers of the screens dispatch the event   *)
(* after they saved, also when their screen was left meanwhile.                *)

BusUsers == Users \cup {NoUser}

\* `refresh-sidebar-${feature}`
EventType(feature) == <<"refresh-sidebar", feature>>

\* the handler a sidebar registers: refreshSessions of the render whose effect ran
Listener(feature, uid_) == [type |-> EventType(feature), feature |-> feature, userId |-> uid_]

\* window.addEventListener(type, handler)
addEventListener(ls, l) == ls \cup {l}

\* the cleanup passing a function that was never registered
removeEventListener_other(ls, l) == ls

\* window.removeEventListener(type, handler)
removeEventListener(ls, l) == ls \ {l}

\* window.dispatchEvent(new Event(type)): the listeners called
dispatchEvent(ls, type) == {l \in ls : l.type = type}

\* a screen mounts and with it its sidebar: the first effect loads the list of a
\* signed-in user, the second registers the handler
SidebarMount(f) ==
    /\ Build = "bus"
    /\ gem = NoGem
    /\ gem' = f
    /\ listeners' = addEventListener(listeners, Listener(f, userId))
    /\ sessions' = IF isAuthenticated THEN SidebarList(store, f, userId) ELSE <<>>
    /\ UNCHANGED <<ragVars, invoked, probeVars, variant, userId, messages, sessionId, loading, inputText,
                   summary, errorMsg, inflight, orphan, store, user_chats, chat_messages,
                   now, nextId, sent>>

\* the screen is left: the sidebar unmounts and the effect's cleanup runs
SidebarUnmount ==
    /\ Build = "bus"
    /\ gem # NoGem
    /\ gem' = NoGem
    /\ listeners' = removeEventListener(listeners, Listener(gem, userId))
    /\ sessions' = <<>>
    /\ UNCHANGED <<ragVars, invoked, probeVars, variant, userId, messages, sessionId, loading, inputText,
                   summary, errorMsg, inflight, orphan, store, user_chats, chat_messages,
                   now, nextId, sent>>

\* sendQuestion of a screen of feature f from the reply on, started by u with no
\* active session, the screen mounted or left since: persistChat (which dispatches
\* when it created a session), then the handler's own dispatchEvent. A called
\* listener refreshes its sidebar's list.
ScreenReply(f, u, full) ==
    /\ Build = "bus"
    /\ f \in ChatGems
    /\ sent < MaxRequests
    /\ sent' = sent + 1
    /\ LET msgs == <<WELCOME_MSG, [from |-> "user", text |-> Question(sent + 1)],
                     BotMsg(f, EarlierReply.text, EarlierReply.sources)>>
           p == persistChat(store, full, now, nextId, u, f, msgs, Null)
           times == IF p.threw THEN 0 ELSE IF p.dispatched THEN 2 ELSE 1
           called == dispatchEvent(listeners, EventType(f))
       IN  /\ store' = p.store
           /\ nextId' = IF Len(p.store) > Len(store) THEN nextId + 1 ELSE nextId
           /\ invoked' = IF times = 0 THEN invoked
                         ELSE [kind |-> "dispatch", type |-> EventType(f),
                               times |-> times, registered |-> listeners,
                               handlers |-> called]
           /\ sessions' = IF times > 0 /\ called # {}
                          THEN LET l == CHOOSE l \in called : TRUE
                               IN  SidebarList(p.store, l.feature, l.userId)
                          ELSE sessions
    /\ UNCHANGED <<ragVars, listeners, probeVars, variant, userId, gem, messages, sessionId, loading,
                   inputText, summary, errorMsg, inflight, orphan, user_chats,
                   chat_messages, now>>

InitBus ==
    /\ variant = [build |-> "bus", tool |-> NoGem]
    /\ userId \in BusUsers /\ gem = NoGem
    /\ messages = <<>> /\ sessionId = Null /\ loading = FALSE
    /\ inputText = NoText /\ summary = NoText /\ errorMsg = NoText
    /\ inflight = NoReq /\ orphan = NoReq
    /\ store = <<>> /\ sessions = <<>>
    /\ user_chats = <<>> /\ chat_messages = <<>>
    /\ now = 0 /\ nextId = 1
    /\ sent = 0
    /\ biotech_rag_chunks = <<>> /\ rag = NoCall
    /\ listeners = {} /\ invoked = NoDispatch
    /\ backendReady = "null" /\ indexReady = FALSE /\ probe = NoProbe

NextBus ==
    \/ \E f \in Gems : SidebarMount(f)
    \/ SidebarUnmount
    \/ \E f \in ChatGems, u \in BusUsers, full \in BOOLEAN : ScreenReply(f, u, full)

SpecBus == InitBus /\ [][NextBus]_vars

\* C17: a dispatch of the refresh event of feature f calls the handler of the
\* mounted sidebar when that sidebar is of feature f, and calls nothing else: no
\* handler of a sidebar of another feature, none of a sidebar that unmounted.
C17_HandlerCalledWhileSubscribed ==
    [][ \A f \in ChatGems, u \in BusUsers, full \in BOOLEAN :
          ScreenReply(f, u, full) /\ invoked' # invoked
          => invoked'.handlers = IF gem = f THEN {Listener(gem, userId)} ELSE {}
      ]_vars

\* an event was dispatched while the sidebar of another feature was listening,
\* and called nobody
C17_Witness ==
    /\ invoked.kind = "dispatch"
    /\ invoked.registered # {}
    /\ \A l \in invoked.registered : l.type # invoked.type
    /\ invoked.handlers = {}

\* a step on which the write of a new session fails: setItem throws in the create
\* branch of saveSession, or the insert into user_chats returns an error
CreationFails ==
    \/ \E r \in Replies, dt \in 0..1 :
         /\ LocalReply(r.text, r.sources, TRUE, dt)
         /\ inflight.sessionId = Null /\ inflight.userId # NoUser
    \/ \E a \in Answers, dt \in 0..1 :
         /\ LocalSummaryReply(a, TRUE, dt)
         /\ inflight.sessionId = Null /\ inflight.userId # NoUser
    \/ \E okList \in BOOLEAN : DbCreated(FALSE, okList) \/ DbSummaryCreated(FALSE, okList)

\* a step on which a request started with no active session id comes to its save
CreationAttempt ==
    \/ \E r \in Replies, dt \in 0..1 :
         /\ LocalReply(r.text, r.sources, FALSE, dt)
         /\ inflight.sessionId = Null /\ inflight.userId # NoUser
    \/ \E a \in Answers, dt \in 0..1 :
         /\ LocalSummaryReply(a, FALSE, dt)
         /\ inflight.sessionId = Null /\ inflight.userId # NoUser
    \/ \E okList \in BOOLEAN : DbCreated(TRUE, okList) \/ DbSummaryCreated(TRUE, okList)

\* a step on which a request starts
RequestStarts ==
    \/ \E q \in Questions : LocalSend(q) \/ DbSend(q)
    \/ LocalSummarize \/ DbSummarize

\* C18: a failed write of a new session leaves the store and the screen's active
\* session id as they were, so that the id stays absent; the next request takes
\* the screen's id as it is, and a request started without an id creates a
\* session under a new id when it comes to its save.
C18_FailedCreationRetried ==
    [][ /\ CreationFails
           => /\ sessionId' = sessionId
              /\ IdsIn(user_chats', store') = StoredIds
              /\ Build = "db" /\ inflight' # NoReq => inflight'.activeChatId = Null
        /\ RequestStarts
           => /\ Build = "local" => inflight'.sessionId = sessionId
              /\ Build = "db" => inflight'.activeChatId = sessionId
              /\ Build = "db" /\ gem \in ChatGems /\ isAuthenticated /\ sessionId = Null
                 => inflight'.pc = "creating"
        /\ CreationAttempt
           => /\ nextId \notin StoredIds
              /\ IdsIn(user_chats', store') = StoredIds \cup {nextId}
              /\ sessionId' = nextId
      ]_vars

\* the session of a second request that created it after the first request's
\* write had failed: it holds the catch block's message and the second question
C18_Witness ==
    /\ Build = "local" /\ sessionId # Null /\ sessionId \in StoredIds
    /\ \E i, j \in 1..Len(StoredMsgs(sessionId)) :
         /\ i < j
         /\ StoredMsgs(sessionId)[i].text = CannotReach
         /\ StoredMsgs(sessionId)[j].text = Question(2)
    /\ Question(1) \in {messages[i].text : i \in 1..Len(messages)}

\* C19: a step creates a session only while the screen has no active session
\* id, and only for a conversation that holds a user message: a stored session
\* is never made of the welcome message alone, and none is created while the
\* screen shows a session it selected or created.
C19_LazyCreation ==
    [][ \A id \in IdsIn(user_chats', store') \ StoredIds :
          /\ sessionId = Null
          /\ Build = "local" => UserMsgs(loadSession(store', id).messages) # <<>>
          /\ Build = "db" => inflight # NoReq /\ inflight.userId # NoUser
      ]_vars

\* the ids that were given to a session of the localStorage store and are no longer
\* in it: uid() never returns an id again, and only deleteSession takes one out
DeletedIds == {id \in 1..(nextId - 1) : Build = "local" /\ ~HasSession(store, id)}

\* C20: a deleted session id stays deleted: after any step the id is still not
\* in the store (loadSession finds nothing), no list computed from the store and
\* no list on screen holds it, and no new session is given it.
C20_DeletedIsTerminal ==
    [][ \A id \in DeletedIds :
          /\ id \in DeletedIds'
          /\ SelectSeqIdx(store', id, 1) = 0
          /\ \A f \in Gems, u \in Users :
               \A j \in DOMAIN refreshSessions(store', f, u) :
                  refreshSessions(store', f, u)[j].id # id
          /\ \A j \in DOMAIN sessions' : sessions'[j].id # id
          /\ nextId' > id
      ]_vars

\* a reply came back for a request made in a session that was deleted while the
\* request was in flight: the screen holds the answer and the deleted id
C20_Witness ==
    /\ sessionId \in DeletedIds
    /\ inflight = NoReq /\ ~loading
    /\ \E i \in 1..Len(messages) : messages[i].text \in Answers

\* the entries the sidebar of owner and feature has to show for the store st
ShownFor(st, feature, owner) ==
    LET l == refreshSessions(st, feature, owner)
    IN  [i \in 1..Len(l) |-> [id |-> l[i].id, title |-> l[i].title,
                              updatedAt |-> l[i].updatedAt]]

AwaitedQuestions ==
    {c.question.id : c \in {r \in {inflight, orphan} :
        \/ r.kind = "ask"
        \/ r.kind = "dbask" /\ r.pc \in {"creating", "savingUser", "asking"}}}

\* the texts the stores hold: those of the messages of the sessions, of the rows
\* of chat_messages, and those the titles of the sessions and chats were cut from
StoredTexts ==
    UNION { {store[i].messages[j].text.id : j \in 1..Len(store[i].messages)}
              \cup {store[i].title.id} : i \in 1..Len(store) }
    \cup {chat_messages[i].text_content.id : i \in 1..Len(chat_messages)}
    \cup {user_chats[i].title.id : i \in 1..Len(user_chats)}

\* C22: nothing of an exchange is written to the session store before its
\* answer has been obtained: while a chat request awaits its answer, no stored
\* session, chat row or message holds its question.
C22_AnswerBeforeWrite == AwaitedQuestions \cap StoredTexts = {}

\* C23: while a request of the screen is outstanding, loading is set, so that
\* sendQuestion and handleSummarize, which return at once when loading is set,
\* issue no second request whatever the trigger.
C23_NoDuplicateSubmit == inflight # NoReq => loading

----------------------------------------------------------------------------
(* The readiness probe: the checkHealth effect a tool screen runs once when it *)
(* mounts, and sendQuestion as far as it depends on what the probe found.      *)

\* the screens by the file they are in: the localStorage DoubtSolver and
\* NotesGenerator retry, the other two probe once
ProbeScreens == {"part_003", "part_005", "LessonPlanGenerator.jsx", "DoubtSolver.jsx"}

\* const maxRetries of the effect; a screen without the retry branch has none
maxRetries(screen) ==
    IF screen = "part_003" THEN 3 ELSE IF screen = "part_005" THEN 60 ELSE 0

\* the test before a retry, letting one more through
RetryAllowed_oneMore(screen, retryCount) == retryCount <= maxRetries(screen)

\* if (retryCount < maxRetries)
RetryAllowed(screen, retryCount) == retryCount < maxRetries(screen)

\* setTimeout(checkHealth, 1000)
RetryDelay == 1000

\* the screen mounts: the effect calls checkHealth, which fetches /health
ProbeMount(screen) ==
    /\ Build = "probe"
    /\ gem = NoGem /\ screen = Tool
    /\ gem' = screen
    /\ MountState("doubt")
    /\ backendReady' = "null" /\ indexReady' = FALSE
    /\ probe' = [pc |-> "fetching", retryCount |-> 0, fetches |-> 1]
    /\ UNCHANGED <<ragVars, busVars, variant, userId, orphan, store, sessions, user_chats,
                   chat_messages, now, nextId, sent>>

\* the fetch of /health resolves with res.ok and a body that parses
HealthOk(index_ready) ==
    /\ Build = "probe"
    /\ probe.pc = "fetching"
    /\ backendReady' = "true" /\ indexReady' = index_ready
    /\ probe' = [probe EXCEPT !.pc = "done"]
    /\ UNCHANGED <<ragVars, busVars, variant, userId, gem, messages, sessionId, loading,
                   inputText, summary, errorMsg, inflight, orphan, store, sessions,
                   user_chats, chat_messages, now, nextId, sent>>

\* the fetch resolves not ok, or it (or res.json()) throws
HealthFail ==
    /\ Build = "probe"
    /\ probe.pc = "fetching"
    /\ IF RetryAllowed(gem, probe.retryCount)
       THEN /\ probe' = [pc |-> "waiting", retryCount |-> probe.retryCount + 1,
                         fetches |-> probe.fetches, delay |-> RetryDelay]
            /\ UNCHANGED backendReady
       ELSE /\ probe' = [probe EXCEPT !.pc = "done"]
            /\ backendReady' = "false"
    /\ UNCHANGED <<ragVars, busVars, indexReady, variant, userId, gem, messages, sessionId,
                   loading, inputText, summary, errorMsg, inflight, orphan, store, sessions,
                   user_chats, chat_messages, now, nextId, sent>>

\* the timer fires: checkHealth fetches again
ProbeTimer ==
    /\ Build = "probe"
    /\ probe.pc = "waiting"
    /\ probe' = [pc |-> "fetching", retryCount |-> probe.retryCount,
                 fetches |-> probe.fetches + 1]
    /\ UNCHANGED <<ragVars, busVars, backendReady, indexReady, variant, userId, gem, messages,
                   sessionId, loading, inputText, summary, errorMsg, inflight, orphan, store,
                   sessions, user_chats, chat_messages, now, nextId, sent>>

\* sendQuestion (generatePlan) up to its fetch, by the button, Enter or a chip:
\* it returns only for an empty question or when loading is set
ProbeSend(q) ==
    /\ Build = "probe"
    /\ gem # NoGem
    /\ ~loading
    /\ sent < MaxRequests /\ q = Question(sent + 1)
    /\ sent' = sent + 1
    /\ messages' = Append(messages, [from |-> "user", text |-> q])
    /\ loading' = TRUE
    /\ inflight' = [kind |-> "ask", gem |-> gem, userId |-> userId, question |-> q,
                    newMessages |-> Append(messages, [from |-> "user", text |-> q]),
                    sessionId |-> sessionId]
    /\ UNCHANGED <<ragVars, busVars, probeVars, variant, userId, gem, sessionId, inputText,
                   summary, errorMsg, orphan, store, sessions, user_chats, chat_messages,
                   now, nextId>>

\* the request ends, answered or not; a guest's conversation is not saved
ProbeSendDone(answered) ==
    /\ Build = "probe"
    /\ inflight # NoReq
    /\ messages' = Append(inflight.newMessages,
                          IF answered THEN BotMsg("doubt", EarlierReply.text, EarlierReply.sources)
                          ELSE CatchMsg("doubt"))
    /\ loading' = FALSE
    /\ inflight' = NoReq
    /\ UNCHANGED <<ragVars, busVars, probeVars, variant, userId, gem, sessionId, inputText,
                   summary, errorMsg, orphan, store, sessions, user_chats, chat_messages,
                   now, nextId, sent>>

InitProbe ==
    /\ variant \in [build : {"probe"}, tool : ProbeScreens]
    /\ userId = NoUser /\ gem = NoGem
    /\ messages = <<>> /\ sessionId = Null /\ loading = FALSE
    /\ inputText = NoText /\ summary = NoText /\ errorMsg = NoText
    /\ inflight = NoReq /\ orphan = NoReq
    /\ store = <<>> /\ sessions = <<>>
    /\ user_chats = <<>> /\ chat_messages = <<>>
    /\ now = 0 /\ nextId = 1
    /\ sent = 0
    /\ biotech_rag_chunks = <<>> /\ rag = NoCall
    /\ listeners = {} /\ invoked = NoDispatch
    /\ backendReady = "null" /\ indexReady = FALSE /\ probe = NoProbe

NextProbe ==
    \/ \E screen \in ProbeScreens : ProbeMount(screen)
    \/ \E index_ready \in BOOLEAN : HealthOk(index_ready)
    \/ HealthFail
    \/ ProbeTimer
    \/ \E q \in Questions : ProbeSend(q)
    \/ \E answered \in BOOLEAN : ProbeSendDone(answered)

SpecProbe == InitProbe /\ [][NextProbe]_vars

\* every fetch of /health resolves or fails, every timer fires, and the screen mounts
FairProbe ==
    /\ SpecProbe
    /\ WF_vars(\E screen \in ProbeScreens : ProbeMount(screen))
    /\ WF_vars(HealthFail \/ \E index_ready \in BOOLEAN : HealthOk(index_ready))
    /\ WF_vars(ProbeTimer)

\* C24: the probe makes at most maxRetries + 1 fetches, each retry after the
\* same delay; it stops at the first fetch that succeeds; it declares the
\* backend unavailable only when maxRetries + 1 fetches have failed; and it
\* always ends with the backend marked ready or unavailable.
C24_BoundedProbe ==
    /\ [](gem # NoGem
          => /\ probe.fetches <= maxRetries(gem) + 1
             /\ probe.pc = "waiting" => probe.delay = RetryDelay
             /\ backendReady = "true" => probe.pc = "done"
             /\ backendReady = "false"
                => probe.pc = "done" /\ probe.fetches = maxRetries(gem) + 1
             /\ probe.pc = "done" <=> backendReady # "null")
    /\ [][probe.pc = "done" => probe' = probe /\ backendReady' = backendReady]_vars
    /\ <>(probe.pc = "done" /\ backendReady \in {"true", "false"})

\* every fetch of a retrying probe has failed and the backend is marked unavailable
C24_Witness ==
    /\ backendReady = "false" /\ probe.pc = "done"
    /\ maxRetries(gem) > 0 /\ probe.fetches = maxRetries(gem) + 1

\* C25: while the probe has marked the backend unavailable, or the index is
\* not ready, no request goes out from the screen.
C25_ReadinessGatesRequests ==
    [][ \A q \in Questions :
          ProbeSend(q) => /\ backendReady # "false"
                          /\ backendReady = "true" => indexReady
      ]_vars

\* C26: whenever the screen has an active session id and no request is in
\* flight, the store holds a session with that id.
C26_ActiveIdIsStored ==
    (gem # NoGem /\ sessionId # Null /\ inflight = NoReq) => sessionId \in StoredIds

\* the stored sessions whose messages hold the text q
SessionsHolding(q) ==
    {id \in StoredIds : \E i \in 1..Len(StoredMsgs(id)) : StoredMsgs(id)[i].text = q}

\* C27: a question submitted on a chat screen is stored in at most one session.
C27_QuestionInOneSession ==
    Tool \in ChatGems => \A q \in Questions : Cardinality(SessionsHolding(q)) <= 1

\* the screen no longer shows the conversation the pending request was made in
\* (the user selected a session or clicked New Chat after submitting)
ShowsOtherConversation ==
    /\ inflight # NoReq /\ gem \in ChatGems
    /\ \/ inflight.kind = "ask" /\ messages # inflight.newMessages
       \/ inflight.kind = "dbask" /\ inflight.pc = "asking"
          /\ sessionId # inflight.activeChatId

\* C28: when the screen shows another conversation than the one a pending request
\* was made in, the step that takes the reply (answer or error text) does not
\* append a message to the displayed conversation.
C28_LateReplyNotInOtherConversation ==
    [][ (ShowsOtherConversation /\ inflight' # inflight /\ gem' = gem)
            => ~ \E m \in {messages'[i] : i \in DOMAIN messages'} :
                     messages' = Append(messages, m) ]_vars

\* the texts of the catch blocks' placeholder replies
Placeholders == {CatchMsg(g).text : g \in ChatGems}

\* C29: no stored session holds a transport-failure placeholder.
C29_PlaceholderNotStored ==
    \A id \in StoredIds :
        \A i \in 1..Len(StoredMsgs(id)) : StoredMsgs(id)[i].text \notin Placeholders

\* the number of messages from one side that a stored session holds
CountFrom(id, side) ==
    Cardinality({i \in 1..Len(StoredMsgs(id)) : StoredMsgs(id)[i].from = side})

\* C30: a Summarizer session never holds more than one user message and one bot
\* message (it holds none only between its creation and the insert of the two).
C30_OneSummaryPerSession ==
    Tool = "summarizer"
        => \A id \in StoredIds : CountFrom(id, "user") <= 1 /\ CountFrom(id, "bot") <= 1

====
